---------------------------- MODULE Spec2Model ----------------------------
(***************************************************************************)
(* EPDEnvClock: the persistent-state and time-continuity engine.           *)
(*                                                                         *)
(* One wake cycle of the device is                                         *)
(*   boot -> DeepSleepManager_Init -> ParallelTasks_StartWiFiAndSensor     *)
(*        -> (wifiNtpTask || sensorTask) -> ParallelTasks_WaitForCompletion*)
(*        -> performUpdate -> DeepSleepManager_EnterDeepSleep -> asleep.   *)
(*                                                                         *)
(* Conventions                                                             *)
(*  - A struct timeval is a record [sec, usec]; the 64-bit microsecond     *)
(*    sums of the source are formed on the pair with carry, which gives    *)
(*    the same value and keeps every intermediate below 2^31.              *)
(*  - A float that holds a drift rate is kept in thousandths of ms/min     *)
(*    (microseconds per minute), in exact arithmetic; the binary rounding  *)
(*    of float32 is not modelled.                                          *)
(*  - The drift rate file holds hundredths of ms/min ("%.2f"); 0 stands    *)
(*    for a missing file.                                                  *)
(***************************************************************************)
EXTENDS Integers, Sequences, FiniteSets, TLC

(***************************************************************************)
(* Bounds of the model                                                     *)
(***************************************************************************)
MaxBoots == 3
MaxFaults == 1

(***************************************************************************)
(* Program constants                                                       *)
(***************************************************************************)
kDefaultDriftRateMsPerMin == 170000
kMinValidTime == 1577836800
kMinDriftRate == 20000
kMaxDriftRate == 300000
NTP_SERVER_COUNT == 3
kLocalTimeValidFrom == 1483196400

\* microseconds per second; estimatedProcessingTime = 5.0f s, in ms;
\* lastDisplayedMinute = 255: no minute shown yet
US == 1000000
kDefaultProcessingMs == 5000
kNoMinute == 255
\* The size the model gives a file that does not exist
NoFile == -1

(***************************************************************************)
(* Inputs of the environment                                               *)
(***************************************************************************)
\* True (UTC) time at the first power-on: 2026-01-01 00:58:38.
TrueBootSec == 1767225600 + 58 * 60 + 38
\* Time from the start of the program to DeepSleepManager_Init (us).
BootOverheadUs == {300217}
\* Extra true time that passes during one sleep because the RTC slow clock
\* runs slow (us): the physical drift the compensation is meant to cancel.
SleepDriftUs == {140000}
\* Contents of a record that lost its validity marker.
GarbageRates == {0, 912345}

(***************************************************************************)
(* struct timeval                                                          *)
(***************************************************************************)
Tv(s, u) == [sec |-> s, usec |-> u]

\* sec * 10^6 + us, split back into tv_sec = total / 10^6, tv_usec = total % 10^6
TvNorm(s, us) == Tv(s + (us \div US), us % US)

TvAddUs(tv, d) == TvNorm(tv.sec, tv.usec + d)

\* (a - b) in milliseconds, from (sec*1000 + usec/1000) of each
TvDiffMs(a, b) == (a.sec - b.sec) * 1000 + ((a.usec \div 1000) - (b.usec \div 1000))

\* C division truncates toward zero
CDiv(a, b) == IF a >= 0 THEN a \div b ELSE -((-a) \div b)

\* floor(a * b / 60000000) for 0 <= a, 0 <= b, without an intermediate >= 2^31
MulDiv60M(a, b) ==
  LET aH == a \div 1000
      aL == a % 1000
      bH == b \div 1000
      bL == b % 1000
      X == aH * bH
      Y == aH * bL + aL * bH
      Z == aL * bL
  IN  (X \div 60) + (Y \div 60000)
        + (((X % 60) * US + (Y % 60000) * 1000 + Z) \div (60 * US))

(***************************************************************************)
(* int64_t microseconds, kept as [sec, usec] with value sec * 10^6 + usec  *)
(* and 0 <= usec < 10^6                                                    *)
(***************************************************************************)
UsAdd(a, b) == TvNorm(a.sec + b.sec, a.usec + b.usec)
UsSub(a, b) == TvNorm(a.sec - b.sec, a.usec - b.usec)
UsNeg(a) == TvNorm(-a.sec, -a.usec)
UsIsNeg(a) == a.sec < 0
UsIsZero(a) == a.sec = 0 /\ a.usec = 0
\* (a + b) / 2 of C, truncating toward zero; the halves of the seconds are
\* added so that the sum of two epoch-sized values stays below 2^31
UsHalfSum(a, b) ==
  LET rest == ((a.sec % 2) + (b.sec % 2)) * US + a.usec + b.usec
      floorHalf == TvNorm((a.sec \div 2) + (b.sec \div 2), rest \div 2)
  IN  IF floorHalf.sec < 0 /\ rest % 2 = 1 THEN TvAddUs(floorHalf, 1) ELSE floorHalf
\* a / 1000 of C, truncating toward zero
UsToMsNat(a) == a.sec * 1000 + (a.usec \div 1000)
UsToMs(a) == IF UsIsNeg(a) THEN -UsToMsNat(UsNeg(a)) ELSE UsToMsNat(a)

(***************************************************************************)
(* RTCState, deep_sleep_manager.h                                          *)
(***************************************************************************)
RTCStateDefault ==
  [ magic                   |-> TRUE,
    lastDisplayedMinute     |-> kNoMinute,
    sensorInitialized       |-> FALSE,
    bootCount               |-> 0,
    lastNtpSyncBootCount    |-> 0,
    lastNtpSyncTime         |-> 0,
    lastRtcDriftMs          |-> 0,
    lastRtcDriftValid       |-> FALSE,
    imageSize               |-> 0,
    savedTime               |-> 0,
    savedTimeUs             |-> 0,
    sleepDurationUs         |-> 0,
    lastUploadedTime        |-> 0,
    estimatedProcessingTime |-> kDefaultProcessingMs,
    driftRateMsPerMin       |-> kDefaultDriftRateMsPerMin,
    driftRateCalibrated     |-> FALSE,
    cumulativeCompensationMs |-> 0 ]

ParallelTaskResultsDefault ==
  [ wifiConnected |-> FALSE, ntpSynced |-> FALSE, driftMeasured |-> FALSE,
    ntpDriftMs |-> 0, cumulativeCompMs |-> 0,
    wifiConnectTime |-> 0, ntpSyncTime |-> 0,
    sensorInitialized |-> FALSE, sensorReady |-> FALSE ]

NetworkStateDefault ==
  [ wifiConnected |-> FALSE, ntpSynced |-> FALSE,
    wifiConnectTime |-> 0, ntpSyncTime |-> 0 ]


(***************************************************************************)
(* State                                                                   *)
(***************************************************************************)
VARIABLES
  rtcState,              \* RTC_DATA_ATTR RTCState rtcState (survives deep sleep)
  clock,                 \* the system clock (gettimeofday / settimeofday)
  trueTime,              \* the time the NTP servers serve
  uptimeUs,              \* esp_timer_get_time(): microseconds since boot
  pc,                    \* where the controller (setup) is in the wake cycle
  initialized,           \* deep_sleep_manager.cpp: bool initialized
  sdCardAvailable,
  spiffsMounted,
  rtcTimeBeforeNtpSync,  \* struct timeval rtcTimeBeforeNtpSync
  ntpSyncDurationMs,
  driftRateFile,         \* /drift_rate.txt on each medium, hundredths of ms/min, 0 = no file
  lastUploadedFile,      \* /last_uploaded.txt on each medium, 0 = no file
  frameBufferFile,       \* /frame.bin on each medium: its size in bytes, NoFile = no file
  spiffsBegun,           \* the SPIFFS library holds the mounted file system
  epdAsleep,             \* the display controller is in deep sleep
  timerWakeUs,           \* esp_sleep_enable_timer_wakeup(), 0 = not armed
  wifiPc,                \* where wifiNtpTask is
  sensorPc,              \* where sensorTask is
  wifiTaskHandle,        \* TRUE = not nullptr
  sensorTaskHandle,
  eventBits,             \* bits set in taskEventGroup
  results,               \* ParallelTaskResults results
  networkState,          \* NetworkState networkState
  wifiParams,            \* WifiTaskParams wifiParams
  wl,                    \* locals of the network worker's call stack
  allDone,               \* return value of ParallelTasks_WaitForCompletion
  h                      \* history of the wake cycle (observed, never read by the program)

vars == << rtcState, clock, trueTime, uptimeUs, pc, initialized, sdCardAvailable,
           spiffsMounted, rtcTimeBeforeNtpSync, ntpSyncDurationMs, driftRateFile,
           lastUploadedFile, frameBufferFile, spiffsBegun, epdAsleep, timerWakeUs, wifiPc, sensorPc, wifiTaskHandle,
           sensorTaskHandle, eventBits, results, networkState, wifiParams, wl,
           allDone, h >>

recordVars == << rtcState >>
timeVars == << clock, trueTime, uptimeUs >>
mediaVars == << frameBufferFile, spiffsBegun, epdAsleep >>
storageVars == << sdCardAvailable, spiffsMounted, driftRateFile, lastUploadedFile,
                 mediaVars >>
syncVars == << rtcTimeBeforeNtpSync, ntpSyncDurationMs >>
taskVars == << wifiPc, sensorPc, wifiTaskHandle, sensorTaskHandle, eventBits,
               results, networkState, wifiParams, wl, allDone >>

WIFI_TASK_DONE_BIT == "wifi"
SENSOR_TASK_DONE_BIT == "sensor"
ALL_TASKS_DONE == {WIFI_TASK_DONE_BIT, SENSOR_TASK_DONE_BIT}

WifiLocalsDefault ==
  [ serverIdx |-> 0, startTimeUs |-> 0, preResetCompMs |-> 0,
    previousNtpSyncTime |-> 0, ntpTime |-> Tv(0, 0), actualDriftMs |-> 0,
    correctedUnixUsAtReceive |-> Tv(0, 0), offsetUs |-> Tv(0, 0),
    rttUs |-> Tv(0, 0) ]

\* What the history records, reset at every boot except the counters that
\* span wakes.
HistoryBoot(old) ==
  [ faults       |-> old.faults,
    wakes        |-> old.wakes + 1,
    bootCountAtWake |-> rtcState.bootCount,
    markerValidAtWake |-> rtcState.magic,
    restored     |-> FALSE,       \* restoreTimeFromRTC set the clock in this wake
    restoreIn    |-> [savedTime |-> 0, savedTimeUs |-> 0, sleepDurationUs |-> 0,
                      bootOverheadUs |-> 0, rate |-> 0],
    restoredClock |-> Tv(0, 0),
    wakeCompUs   |-> 0,           \* compensation contained in the clock of this wake
    sumAppliedMs |-> old.sumAppliedMs + CDiv(old.wakeCompUs, 1000),
    resetRan     |-> FALSE,       \* the reset branch of Init ran in this wake
    afterReset   |-> rtcState,    \* the record as the reset branch left it
    syncOk       |-> FALSE,       \* NetworkManager_SyncNtp returned true in this wake
    markDone     |-> FALSE,       \* DeepSleepManager_MarkNtpSynced returned in this wake
    markSteps    |-> 0,           \* field groups MarkNtpSynced has written in this wake
    atStart      |-> rtcState,    \* the record when the workers were started
    created      |-> {},          \* workers whose task was created
    killed       |-> {},          \* workers deleted by the controller
    waitReturned |-> FALSE,
    bitsAtReturn |-> {},
    queried      |-> << >>,       \* servers NetworkManager_SyncNtp has queried, in order
    answered     |-> {},          \* servers that answered NetworkManager_SyncNtp
    syncFailed   |-> FALSE,       \* NetworkManager_SyncNtp returned false in this wake
    syncStart    |-> [rtcState |-> RTCStateDefault, clock |-> Tv(0, 0), uptimeUs |-> 0],
                                  \* record, clock and uptime when SyncNtp was entered
    startClock   |-> [clock |-> Tv(0, 0), uptimeUs |-> 0],
                                  \* clock and uptime when the workers were started
    rateUpdate   |-> [done |-> FALSE, calibrated |-> FALSE, oldRate |-> 0,
                      clampedRate |-> 0, newRate |-> 0] ]
                                  \* the update of the drift rate in this wake

(***************************************************************************)
(* Power-on: the loader writes the initializers of RTCState; the system    *)
(* clock starts at the epoch.                                              *)
(***************************************************************************)
\* Every static outside RTC memory is lost at power-down and holds its
\* initializer when the program starts again.
StaticsAtBoot ==
  /\ initialized' = FALSE
  /\ sdCardAvailable' = FALSE
  /\ spiffsMounted' = FALSE
  /\ spiffsBegun' = FALSE
  /\ rtcTimeBeforeNtpSync' = Tv(0, 0)
  /\ ntpSyncDurationMs' = 0
  /\ wifiPc' = "none"
  /\ sensorPc' = "none"
  /\ wifiTaskHandle' = FALSE
  /\ sensorTaskHandle' = FALSE
  /\ eventBits' = {}
  /\ results' = ParallelTaskResultsDefault
  /\ networkState' = NetworkStateDefault
  /\ wifiParams' = [needWifiSync |-> FALSE, measureDriftOnly |-> FALSE]
  /\ wl' = WifiLocalsDefault
  /\ allDone' = FALSE

Init ==
  /\ rtcState = RTCStateDefault
  /\ \E b \in BootOverheadUs :
       /\ clock = Tv(0, b)
       /\ trueTime = Tv(TrueBootSec, b)
       /\ uptimeUs = b
  /\ pc = "boot"
  /\ initialized = FALSE
  /\ sdCardAvailable = FALSE
  /\ spiffsMounted = FALSE
  /\ rtcTimeBeforeNtpSync = Tv(0, 0)
  /\ ntpSyncDurationMs = 0
  /\ driftRateFile = [sd |-> 0, spiffs |-> 0]
  /\ lastUploadedFile = [sd |-> 0, spiffs |-> 0]
  /\ frameBufferFile = [sd |-> NoFile, spiffs |-> NoFile]
  /\ spiffsBegun = FALSE
  /\ epdAsleep = FALSE
  /\ timerWakeUs = 0
  /\ wifiPc = "none"
  /\ sensorPc = "none"
  /\ wifiTaskHandle = FALSE
  /\ sensorTaskHandle = FALSE
  /\ eventBits = {}
  /\ results = ParallelTaskResultsDefault
  /\ networkState = NetworkStateDefault
  /\ wifiParams = [needWifiSync |-> FALSE, measureDriftOnly |-> FALSE]
  /\ wl = WifiLocalsDefault
  /\ allDone = FALSE
  /\ h = [ HistoryBoot([faults |-> 0, wakes |-> 0, sumAppliedMs |-> 0, wakeCompUs |-> 0])
             EXCEPT !.bootCountAtWake = 0, !.markerValidAtWake = TRUE,
                    !.afterReset = RTCStateDefault, !.atStart = RTCStateDefault ]

(***************************************************************************)
(* Environment                                                             *)
(***************************************************************************)
\* The timer armed by EnterDeepSleep fires: the chip restarts the program.
\* RTC memory is kept; every other static starts from its initializer. The
\* system clock was kept by the RTC timer over the sleep; the slow clock ran
\* slow, so more true time passed than the timer counted.
TimerWake ==
  /\ pc = "asleep"
  /\ h.wakes < MaxBoots
  /\ \E d \in SleepDriftUs, b \in BootOverheadUs :
       /\ trueTime' = TvAddUs(trueTime, timerWakeUs + d + b)
       /\ clock' = TvAddUs(clock, timerWakeUs + b)
       /\ uptimeUs' = b
  /\ pc' = "boot"
  /\ timerWakeUs' = 0
  /\ h' = HistoryBoot(h)
  /\ UNCHANGED << recordVars, initialized, storageVars, syncVars, taskVars >>

\* The RTC memory lost its content while the device slept (brown-out): the
\* marker and every other field hold garbage when the program next starts.
RtcMemoryLost ==
  /\ pc = "asleep"
  /\ h.faults < MaxFaults
  /\ rtcState.magic
  /\ \E r \in GarbageRates, cal \in BOOLEAN :
       rtcState' = [rtcState EXCEPT
                      !.magic = FALSE,
                      !.bootCount = 0,
                      !.lastUploadedTime = 12345,
                      !.driftRateMsPerMin = r,
                      !.driftRateCalibrated = cal,
                      !.cumulativeCompensationMs = 777,
                      !.estimatedProcessingTime = 123456]
  /\ h' = [h EXCEPT !.faults = @ + 1]
  /\ UNCHANGED << timeVars, pc, initialized, storageVars, syncVars, timerWakeUs,
                  taskVars >>

\* Full power loss and power-on while asleep: the loader writes the
\* initializers of RTCState again; the files on the medium stay.
PowerCycle ==
  /\ pc = "asleep"
  /\ h.faults < MaxFaults
  /\ h.wakes < MaxBoots
  /\ rtcState' = RTCStateDefault
  /\ \E b \in BootOverheadUs :
       /\ clock' = Tv(0, b)
       /\ trueTime' = TvAddUs(trueTime, timerWakeUs + b)
       /\ uptimeUs' = b
  /\ pc' = "boot"
  /\ timerWakeUs' = 0
  /\ h' = [ HistoryBoot([h EXCEPT !.faults = @ + 1, !.sumAppliedMs = 0, !.wakeCompUs = 0])
              EXCEPT !.bootCountAtWake = 0, !.markerValidAtWake = TRUE,
                     !.afterReset = RTCStateDefault, !.atStart = RTCStateDefault ]
  /\ UNCHANGED << initialized, storageVars, syncVars, taskVars >>


(***************************************************************************)
(* deep_sleep_manager.cpp                                                  *)
(***************************************************************************)
\* driftCompensationUs = (int64_t)(sleepMinutes * driftRateMsPerMin * 1000.0f)
\* with sleepMinutes = sleepDurationUs / 60000000.0f; the conversion to
\* int64_t truncates toward zero.
DriftCompensationUs(sleepDurationUs, rate) ==
  IF rate >= 0 THEN MulDiv60M(sleepDurationUs, rate)
               ELSE -MulDiv60M(sleepDurationUs, -rate)

\* The restore of the earlier firmware (src/EPDClock), which worked in whole
\* seconds: every term is cut to seconds before the sum.
RestoredTime_WholeSeconds(st, bootOverheadUs) ==
  Tv(st.savedTime + (st.sleepDurationUs \div US) + (bootOverheadUs \div US), 0)

\* wakeupTimeUs of restoreTimeFromRTC, as the timeval handed to settimeofday
RestoredTime(st, bootOverheadUs) ==
  TvNorm(st.savedTime,
         st.savedTimeUs + st.sleepDurationUs + bootOverheadUs
           + DriftCompensationUs(st.sleepDurationUs, st.driftRateMsPerMin))

\* The record after restoreTimeFromRTC
RestoredRecord(st) ==
  [st EXCEPT !.cumulativeCompensationMs =
     @ + CDiv(DriftCompensationUs(st.sleepDurationUs, st.driftRateMsPerMin), 1000)]

\* The reset branch of DeepSleepManager_Init
ResetRecord(st) ==
  [st EXCEPT !.magic = TRUE,
             !.lastDisplayedMinute = kNoMinute,
             !.sensorInitialized = FALSE,
             !.bootCount = 1,
             !.lastNtpSyncBootCount = 0,
             !.lastNtpSyncTime = 0,
             !.lastRtcDriftMs = 0,
             !.lastRtcDriftValid = FALSE,
             !.imageSize = 0,
             !.savedTime = 0,
             !.savedTimeUs = 0,
             !.sleepDurationUs = 0,
             !.estimatedProcessingTime = kDefaultProcessingMs]

\* DeepSleepManager_LoadDriftRate: 0 without storage or without the file,
\* else the number in the file (toFloat of the "%.2f" line)
DeepSleepManager_LoadDriftRate(sd, spiffs) ==
  IF sd THEN driftRateFile.sd * 10
  ELSE IF spiffs THEN driftRateFile.spiffs * 10
  ELSE 0

\* DeepSleepManager_LoadLastUploadedTime
DeepSleepManager_LoadLastUploadedTime(sd, spiffs) ==
  IF sd THEN lastUploadedFile.sd
  ELSE IF spiffs THEN lastUploadedFile.spiffs
  ELSE 0

\* The two restores from storage at the end of DeepSleepManager_Init
RestoreFromStorage(st, sd, spiffs) ==
  LET storedTime == DeepSleepManager_LoadLastUploadedTime(sd, spiffs)
      storedRate == DeepSleepManager_LoadDriftRate(sd, spiffs)
      a == IF st.lastUploadedTime = 0 /\ storedTime > 0
             THEN [st EXCEPT !.lastUploadedTime = storedTime] ELSE st
  IN  IF ~a.driftRateCalibrated /\ storedRate > 0
        THEN [a EXCEPT !.driftRateMsPerMin = storedRate, !.driftRateCalibrated = TRUE]
        ELSE a

\* DeepSleepManager_Init without the test of `initialized`
CountBoot_Unguarded(st, alreadyInitialized) ==
  [st EXCEPT !.bootCount = @ + 1]

\* if (initialized) return; rtcState.bootCount++. bootCount is a uint32_t;
\* the model stops long before it wraps.
CountBoot(st, alreadyInitialized) ==
  IF alreadyInitialized THEN st ELSE [st EXCEPT !.bootCount = @ + 1]

\* DeepSleepManager_Init. A call after the first of the same boot returns at
\* once.
DeepSleepManager_Init ==
  /\ pc \in {"boot", "init"}
  /\ IF initialized
       THEN /\ pc' = "init2"
            /\ rtcState' = CountBoot(rtcState, initialized)
            /\ UNCHANGED << timeVars, initialized, storageVars,
                            syncVars, timerWakeUs, taskVars, h >>
       ELSE \E sd \in BOOLEAN, spiffs \in BOOLEAN :
              LET counted == CountBoot(rtcState, initialized)
                  reset == ~counted.magic
                  doRestore == ~reset /\ counted.savedTime > 0
                  afterMarker == IF reset THEN ResetRecord(counted)
                                 ELSE IF doRestore THEN RestoredRecord(counted)
                                 ELSE counted
              IN  /\ sd => ~spiffs     \* SPIFFS is mounted only when SD.begin fails
                  /\ rtcState' = RestoreFromStorage(afterMarker, sd, spiffs)
                  /\ clock' = IF doRestore THEN RestoredTime(counted, uptimeUs) ELSE clock
                  /\ sdCardAvailable' = sd
                  /\ spiffsMounted' = spiffs
                  /\ spiffsBegun' = spiffs
                  /\ initialized' = TRUE
                  /\ pc' = "init"
                  /\ h' = [h EXCEPT
                             !.resetRan = reset,
                             !.afterReset = IF reset THEN ResetRecord(counted) ELSE @,
                             !.restored = doRestore,
                             !.restoreIn =
                                IF doRestore
                                  THEN [savedTime |-> counted.savedTime,
                                        savedTimeUs |-> counted.savedTimeUs,
                                        sleepDurationUs |-> counted.sleepDurationUs,
                                        bootOverheadUs |-> uptimeUs,
                                        rate |-> counted.driftRateMsPerMin]
                                  ELSE @,
                             !.restoredClock = IF doRestore THEN clock' ELSE @,
                             !.wakeCompUs =
                                IF doRestore
                                  THEN DriftCompensationUs(counted.sleepDurationUs,
                                                           counted.driftRateMsPerMin)
                                  ELSE 0]
                  /\ UNCHANGED << trueTime, uptimeUs, driftRateFile, lastUploadedFile,
                                  frameBufferFile, epdAsleep,
                                  syncVars, timerWakeUs, taskVars >>

\* getLocalTime(&timeinfo): true once the local year is past 2016
getLocalTime(tv) == tv.sec >= kLocalTimeValidFrom

tm_min(tv) == (tv.sec \div 60) % 60
tm_sec(tv) == tv.sec % 60

(***************************************************************************)
(* Single-precision arithmetic of DeepSleepManager_CalculateSleepDuration. *)
(* A float is [m, e] with the value m / 2^e (m * 2^(-e) when e < 0) and a  *)
(* mantissa m below 2^24; every operation rounds to nearest, ties to even. *)
(***************************************************************************)
\* The powers of two below 2^31
Pow2 == [k \in 0..30 |-> 2 ^ k]

\* How many bits n has over the 24 of a mantissa, for n below 2^31
RECURSIVE F32Excess(_, _)
F32Excess(n, r) == IF r = 7 \/ n < Pow2[24 + r] THEN r ELSE F32Excess(n, r + 1)

\* n / 2^e rounded to a mantissa of 24 bits
F32Round(n, e) ==
  IF n = 0 THEN [m |-> 0, e |-> 0]
  ELSE LET r == F32Excess(n, 0)
       IN  IF r = 0 THEN [m |-> n, e |-> e]
           ELSE LET q == n \div Pow2[r]
                    rem == n % Pow2[r]
                    half == Pow2[r - 1]
                    up == rem > half \/ (rem = half /\ q % 2 = 1)
                IN  [m |-> IF up THEN q + 1 ELSE q, e |-> e - r]

\* The largest j with ms * 2^j below 125 * 2^24
RECURSIVE F32Shift(_, _)
F32Shift(ms, j) == IF ms * Pow2[j] < 125 * (Pow2[23]) THEN F32Shift(ms, j + 1) ELSE j

\* The float nearest to ms / 1000: rtcState.estimatedProcessingTime holds
\* seconds, the record of the model the same estimate in milliseconds. The
\* estimate is 0 or at least 1.024 s, so that every intermediate value stays
\* below 2^31.
F32FromMillis(ms) ==
  IF ms = 0 THEN [m |-> 0, e |-> 0]
  ELSE LET j == F32Shift(ms, 0)
           x == ms * Pow2[j]
       IN  [m |-> (x \div 125) + (IF 2 * (x % 125) > 125 THEN 1 ELSE 0), e |-> j + 3]

\* a * 1000.0f
F32Times1000(a) == F32Round(a.m * 125, a.e - 3)

\* (uint64_t) of a float that is not negative
F32ToUint(a) == IF a.e >= 0 THEN a.m \div Pow2[a.e] ELSE a.m * Pow2[-a.e]

\* The values rtcState.estimatedProcessingTime takes, in milliseconds
ProcessingEstimatesMs == {0, 1250, 2002, kDefaultProcessingMs, 16001}

\* processingTimeMs = rtcState.estimatedProcessingTime * 1000.0f
ProcessingTimeMs == [ms \in ProcessingEstimatesMs |-> F32Times1000(F32FromMillis(ms))]

\* sleepMs * 1000.0f as the uint64_t the function returns
SleepMsToUs(sleepMs) == F32ToUint(F32Times1000(sleepMs))

\* sleepMs = msUntilNextMinute - processingTimeMs, with its floor of 1000.0f
SleepMs(msUntilNextMinute, processingTimeMs) ==
  LET scaled == msUntilNextMinute * Pow2[processingTimeMs.e] - processingTimeMs.m
  IN  IF scaled < 1000 * Pow2[processingTimeMs.e]
        THEN [m |-> 1000, e |-> 0]
        ELSE F32Round(scaled, processingTimeMs.e)

\* DeepSleepManager_CalculateSleepDuration without the floor of one second
CalculateSleepDuration_NoFloor(tv, st) ==
  IF ~getLocalTime(tv) THEN 60 * US
  ELSE ((60 - tm_sec(tv)) * 1000 - (tv.usec \div 1000) - st.estimatedProcessingTime) * 1000
\* DeepSleepManager_CalculateSleepDuration with the milliseconds of the
\* clock left out
CalculateSleepDuration_WholeSeconds(tv, st) ==
  IF ~getLocalTime(tv) THEN 60 * US
  ELSE LET sleepMs == (60 - tm_sec(tv)) * 1000 - st.estimatedProcessingTime
       IN  (IF sleepMs < 1000 THEN 1000 ELSE sleepMs) * 1000

\* DeepSleepManager_CalculateSleepDuration, in microseconds
DeepSleepManager_CalculateSleepDuration(tv, st) ==
  IF ~getLocalTime(tv) THEN 60 * US
  ELSE LET currentMs == tv.usec \div 1000
           msUntilNextMinute == (60 - tm_sec(tv)) * 1000 - currentMs
           processingTimeMs == ProcessingTimeMs[st.estimatedProcessingTime]
       IN  SleepMsToUs(SleepMs(msUntilNextMinute, processingTimeMs))

\* DeepSleepManager_EnterDeepSleep: the record gets the time and the
\* duration, the timer is armed, the chip powers down.
DeepSleepManager_EnterDeepSleep ==
  /\ pc \in {"joined", "shown"}
  /\ LET sleepDuration == DeepSleepManager_CalculateSleepDuration(clock, rtcState)
     IN  /\ rtcState' = [rtcState EXCEPT !.savedTime = clock.sec,
                                         !.savedTimeUs = clock.usec,
                                         !.sleepDurationUs = sleepDuration]
         /\ timerWakeUs' = sleepDuration
  /\ pc' = "asleep"
  /\ StaticsAtBoot
  /\ UNCHANGED << timeVars, driftRateFile, lastUploadedFile, frameBufferFile, epdAsleep, h >>

\* DeepSleepManager_ShouldSyncWiFiNtp
ShouldSyncWiFiNtp_EveryMinuteZero(st, tv) ==
  st.lastNtpSyncBootCount = 0 \/ tm_min(tv) = 0
     \/ (st.lastDisplayedMinute = 59 /\ tm_min(tv) = 59)

DeepSleepManager_ShouldSyncWiFiNtp(st, tv) ==
  LET currentMinute == tm_min(tv)
      lastMinute == st.lastDisplayedMinute
  IN  \/ st.lastNtpSyncBootCount = 0
      \/ (currentMinute = 0 /\ lastMinute # currentMinute)
      \/ (lastMinute = 59 /\ currentMinute = 59)


(***************************************************************************)
(* parallel_tasks.cpp: start of the two workers                            *)
(***************************************************************************)
\* Next disjuncts of the network worker and of the sensor worker leave the
\* controller where it is.
WorkerFrame ==
  /\ pc # "asleep"
  /\ UNCHANGED << pc, initialized, storageVars, timerWakeUs, allDone >>

\* ParallelTasks_StartWiFiAndSensor without the xEventGroupSetBits of the
\* two failure branches
BitsAfterCreate_NoneSet(wifiCreated, sensorCreated) == {}

\* The done bits after the two xTaskCreatePinnedToCore calls: the bit of a
\* task that could not be created is set at once.
BitsAfterCreate(wifiCreated, sensorCreated) ==
  (IF wifiCreated THEN {} ELSE {WIFI_TASK_DONE_BIT})
    \cup (IF sensorCreated THEN {} ELSE {SENSOR_TASK_DONE_BIT})

\* The controller asks whether a sync is due and starts both workers.
\* xTaskCreatePinnedToCore may fail for either task.
ParallelTasks_StartWiFiAndSensor ==
  /\ pc \in {"init", "init2"}
  /\ \E wifiCreated \in BOOLEAN, sensorCreated \in BOOLEAN, measureDriftOnly \in BOOLEAN :
       LET needWifiSync == DeepSleepManager_ShouldSyncWiFiNtp(rtcState, clock)
           failures == (IF wifiCreated THEN 0 ELSE 1) + (IF sensorCreated THEN 0 ELSE 1)
       IN  /\ needWifiSync => ~measureDriftOnly
           /\ h.faults + failures <= MaxFaults
           /\ results' = ParallelTaskResultsDefault
           /\ networkState' = NetworkStateDefault
           /\ wifiParams' = [needWifiSync |-> needWifiSync,
                             measureDriftOnly |-> measureDriftOnly]
           /\ wifiTaskHandle' = wifiCreated
           /\ wifiPc' = IF wifiCreated THEN "start" ELSE "none"
           /\ sensorTaskHandle' = sensorCreated
           /\ sensorPc' = IF sensorCreated THEN "start" ELSE "none"
           /\ eventBits' = BitsAfterCreate(wifiCreated, sensorCreated)
           /\ h' = [h EXCEPT !.atStart = rtcState,
                             !.startClock = [clock |-> clock, uptimeUs |-> uptimeUs],
                             !.faults = @ + failures,
                             !.created = (IF wifiCreated THEN {WIFI_TASK_DONE_BIT} ELSE {})
                                  \cup (IF sensorCreated THEN {SENSOR_TASK_DONE_BIT} ELSE {})]
  /\ pc' = "wait"
  /\ UNCHANGED << recordVars, timeVars, initialized, storageVars, syncVars,
                  timerWakeUs, wl, allDone >>

(***************************************************************************)
(* network_manager.cpp                                                     *)
(***************************************************************************)
\* NetworkManager_SetupTimeFromRTC: the timeval it hands to settimeofday, or
\* the clock as it is when the record holds no saved time
NetworkManager_SetupTimeFromRTC(st, tv, up) ==
  IF st.savedTime > 0
    THEN TvNorm(st.savedTime, st.savedTimeUs + st.sleepDurationUs + up)
    ELSE tv

(***************************************************************************)
(* NTP timestamps on the wire: 32-bit seconds since 1900 and a 32-bit      *)
(* binary fraction, each kept as two 16-bit halves [hi, lo].               *)
(***************************************************************************)
\* SEVENTY_YEARS = 2208988800 = SEVENTY_YEARS_HI * 2^16 + SEVENTY_YEARS_LO
SEVENTY_YEARS_HI == 33706
SEVENTY_YEARS_LO == 32384

\* (uint32_t)(((uint64_t)usec << 32) / 1000000), as usec * 2^26 / 15625
usecToNtpFrac(usec) ==
  LET q == usec * 1024
  IN  [hi |-> q \div 15625, lo |-> ((q % 15625) * 65536) \div 15625]

\* (uint32_t)(((uint64_t)frac * 1000000) >> 32), as frac * 15625 / 2^26
ntpFracToUsec(frac) == (frac.hi * 15625 + ((frac.lo * 15625) \div 65536)) \div 1024

\* (uint32_t)(tv_sec + SEVENTY_YEARS)
unixToNtpSec(sec) ==
  LET low == sec + SEVENTY_YEARS_LO
  IN  [hi |-> (SEVENTY_YEARS_HI + (low \div 65536)) % 65536, lo |-> low % 65536]

\* unixSec * 1000000 + usec with unixSec = (int64_t)ntpSec - SEVENTY_YEARS
ntpTimestampToUnixUs(ntpSec, ntpFrac) ==
  Tv((ntpSec.hi - SEVENTY_YEARS_HI) * 65536 + ntpSec.lo - SEVENTY_YEARS_LO,
     ntpFracToUsec(ntpFrac))

\* The fraction after frac
NtpFracSucc(frac) ==
  IF frac.lo = 65535 THEN [hi |-> frac.hi + 1, lo |-> 0] ELSE [hi |-> frac.hi, lo |-> frac.lo + 1]

\* The timestamps a server whose clock reads tv (to the microsecond) may put
\* into its response: the seconds since 1900 and a fraction within that
\* microsecond.
ServerStamps(tv) ==
  { st \in { [sec |-> unixToNtpSec(tv.sec), frac |-> f] :
               f \in {usecToNtpFrac(tv.usec), NtpFracSucc(usecToNtpFrac(tv.usec))} } :
      ntpFracToUsec(st.frac) = tv.usec }

\* offset and corrected time of tryNtpServer from the four timestamps
NtpOffsetUs_OneWay(t1, t2, t3, t4) == UsSub(t2, t1)

NtpOffsetUs(t1, t2, t3, t4) == UsHalfSum(UsSub(t2, t1), UsSub(t3, t4))
NtpRttUs(t1, t2, t3, t4) == UsSub(UsSub(t4, t1), UsSub(t3, t2))
NtpCorrectedAtReceive(t1, t2, t3, t4) == UsAdd(t4, NtpOffsetUs(t1, t2, t3, t4))

\* NetworkManager_SyncNtp committing the corrected time of the moment the
\* response arrived
CorrectedNow_Stale(corrected, offset, now) == corrected

\* correctedNowUnixUs of NetworkManager_SyncNtp
CorrectedNow(corrected, offset, now) ==
  LET t4UnixUsApprox == UsSub(corrected, offset)
      elapsed == UsSub(now, t4UnixUsApprox)
      elapsedSinceReceiveUs ==
        IF UsIsZero(corrected) \/ UsIsNeg(elapsed) THEN Tv(0, 0) ELSE elapsed
  IN  UsAdd(corrected, elapsedSinceReceiveUs)


(***************************************************************************)
(* wifiNtpTask, one action per step at which the task can be preempted or  *)
(* deleted                                                                 *)
(***************************************************************************)
WifiRunning == wifiPc \notin {"none", "gone", "killed"}

\* The task starts; without WiFi it only fills its results.
Wifi_Start ==
  /\ wifiPc = "start"
  /\ IF wifiParams.needWifiSync \/ wifiParams.measureDriftOnly
       THEN /\ wifiPc' = "connect"
            /\ UNCHANGED results
       ELSE /\ results' = [results EXCEPT !.wifiConnected = FALSE, !.ntpSynced = TRUE,
                                          !.driftMeasured = FALSE]
            /\ wifiPc' = "signal"
  /\ WorkerFrame
  /\ UNCHANGED << recordVars, timeVars, syncVars, sensorPc, wifiTaskHandle,
                  sensorTaskHandle, eventBits, networkState, wifiParams, wl, h >>

\* NetworkManager_ConnectWiFi succeeds or gives up after 20 attempts of
\* 500 ms; on failure the task restores the time from the record.
WifiAttemptsToConnect == {2}

Wifi_Connect ==
  /\ wifiPc = "connect"
  /\ \E connected \in BOOLEAN, n \in WifiAttemptsToConnect :
       LET attempts == IF connected THEN n ELSE 20
           connectionTime == attempts * 500
           spent == (connectionTime + (IF connected THEN 500 ELSE 1000)) * 1000
       IN  /\ clock' = TvAddUs(clock, spent)
           /\ trueTime' = TvAddUs(trueTime, spent)
           /\ uptimeUs' = uptimeUs + spent
           /\ IF connected
                THEN /\ networkState' = [networkState EXCEPT !.wifiConnected = TRUE,
                                            !.wifiConnectTime = connectionTime]
                     /\ results' = [results EXCEPT !.wifiConnected = TRUE,
                                       !.wifiConnectTime = connectionTime]
                     /\ wifiPc' = IF wifiParams.needWifiSync THEN "sync" ELSE "measure"
                ELSE /\ networkState' = [networkState EXCEPT !.wifiConnected = FALSE,
                                            !.wifiConnectTime = 0]
                     /\ results' = [results EXCEPT !.wifiConnected = FALSE,
                                       !.ntpSynced = FALSE, !.driftMeasured = FALSE]
                     /\ wifiPc' = "setupRtc"
  /\ WorkerFrame
  /\ UNCHANGED << recordVars, syncVars, sensorPc, wifiTaskHandle,
                  sensorTaskHandle, eventBits, wifiParams, wl, h >>

\* NetworkManager_SyncNtp up to the server loop: DeepSleepManager_SaveRtcTimeBeforeSync
Wifi_SyncBegin ==
  /\ wifiPc = "sync"
  /\ rtcTimeBeforeNtpSync' = clock
  /\ wl' = [wl EXCEPT !.startTimeUs = uptimeUs, !.serverIdx = 0]
  /\ wifiPc' = "try"
  /\ h' = [h EXCEPT !.syncStart = [rtcState |-> rtcState, clock |-> clock,
                                   uptimeUs |-> uptimeUs]]
  /\ WorkerFrame
  /\ UNCHANGED << recordVars, timeVars, ntpSyncDurationMs, sensorPc, wifiTaskHandle,
                  sensorTaskHandle, eventBits, results, networkState, wifiParams >>

\* One pass of the server loop: tryNtpServer(NTP_SERVERS[i]). The time a
\* failed query takes is not counted; the time of the answered one is. The server
\* stamps its receive and transmit time t2 = t3 with the true time; the
\* packet takes the same time in both directions.
NtpFailures == {"dns", "beginPacket", "endPacket", "timeout", "short"}
NetDelayUs == {20000}

\* for (size_t i = 0; i < NTP_SERVER_COUNT; i++)
NextServer_SkipsOne(i) == i + 2

NextServer(i) == i + 1

Wifi_TryNtpServer ==
  /\ wifiPc = "try"
  /\ wl.serverIdx < NTP_SERVER_COUNT
  /\ \/ \E f \in NtpFailures :
          /\ wl' = [wl EXCEPT !.serverIdx = NextServer(@)]
          /\ wifiPc' = IF NextServer(wl.serverIdx) < NTP_SERVER_COUNT
                         THEN "try" ELSE "syncFail"
          /\ h' = [h EXCEPT !.queried = Append(@, wl.serverIdx)]
          /\ UNCHANGED timeVars
     \/ \E w \in NetDelayUs : \E st \in ServerStamps(TvAddUs(trueTime, w)) :
          LET t1 == clock
              t2 == ntpTimestampToUnixUs(st.sec, st.frac)
              t3 == t2
              t4 == TvAddUs(clock, 2 * w)
          IN  /\ wl' = [wl EXCEPT
                          !.offsetUs = NtpOffsetUs(t1, t2, t3, t4),
                          !.rttUs = NtpRttUs(t1, t2, t3, t4),
                          !.correctedUnixUsAtReceive = NtpCorrectedAtReceive(t1, t2, t3, t4)]
              /\ clock' = t4
              /\ trueTime' = TvAddUs(trueTime, 2 * w)
              /\ uptimeUs' = uptimeUs + 2 * w
              /\ wifiPc' = "setTime"
              /\ h' = [h EXCEPT !.queried = Append(@, wl.serverIdx),
                                !.answered = @ \cup {wl.serverIdx}]
  /\ WorkerFrame
  /\ UNCHANGED << recordVars, syncVars, sensorPc, wifiTaskHandle, sensorTaskHandle,
                  eventBits, results, networkState, wifiParams >>

\* NetworkManager_SyncNtp after a server answered: settimeofday with the
\* corrected time and DeepSleepManager_SaveNtpSyncDuration; returns true.
Wifi_SyncSetTime ==
  /\ wifiPc = "setTime"
  /\ LET syncTime == (uptimeUs \div 1000) - (wl.startTimeUs \div 1000)
     IN  /\ clock' = CorrectedNow(wl.correctedUnixUsAtReceive, wl.offsetUs, clock)
         /\ ntpSyncDurationMs' = syncTime
         /\ networkState' = [networkState EXCEPT !.ntpSynced = TRUE,
                                                 !.ntpSyncTime = syncTime]
  /\ wifiPc' = "synced"
  /\ h' = [h EXCEPT !.syncOk = TRUE, !.wakeCompUs = 0, !.sumAppliedMs = 0]
  /\ WorkerFrame
  /\ UNCHANGED << recordVars, trueTime, uptimeUs, rtcTimeBeforeNtpSync, sensorPc,
                  wifiTaskHandle, sensorTaskHandle, eventBits, results, wifiParams, wl >>

\* The system clock when NetworkManager_SyncNtp returns false: it was left
\* to run over the delay(1000); settimeofday is not reached.
SyncFailClock_SetFromEmptyResult(tv) ==
  CorrectedNow(wl.correctedUnixUsAtReceive, wl.offsetUs, tv)

SyncFailClock(tv) == TvAddUs(tv, 1000 * 1000)

\* NetworkManager_SyncNtp when every server failed: delay(1000), returns
\* false; the task notes the failure.
Wifi_SyncFail ==
  /\ wifiPc = "syncFail"
  /\ networkState' = [networkState EXCEPT !.ntpSynced = FALSE, !.ntpSyncTime = 0]
  /\ results' = [results EXCEPT !.ntpSynced = FALSE]
  /\ clock' = SyncFailClock(clock)
  /\ trueTime' = TvAddUs(trueTime, 1000 * 1000)
  /\ uptimeUs' = uptimeUs + 1000 * 1000
  /\ wifiPc' = "setupRtc"
  /\ h' = [h EXCEPT !.syncFailed = TRUE]
  /\ WorkerFrame
  /\ UNCHANGED << recordVars, syncVars, sensorPc, wifiTaskHandle,
                  sensorTaskHandle, eventBits, wifiParams, wl >>

\* NetworkManager_SetupTimeFromRTC called by the task after a failure
Wifi_SetupTimeFromRTC ==
  /\ wifiPc = "setupRtc"
  /\ clock' = NetworkManager_SetupTimeFromRTC(rtcState, clock, uptimeUs)
  /\ h' = [h EXCEPT !.wakeCompUs = IF rtcState.savedTime > 0 THEN 0 ELSE @]
  /\ wifiPc' = "signal"
  /\ WorkerFrame
  /\ UNCHANGED << recordVars, trueTime, uptimeUs, syncVars, sensorPc, wifiTaskHandle,
                  sensorTaskHandle, eventBits, results, networkState, wifiParams, wl >>

\* The task after NetworkManager_SyncNtp returned true, up to the call of
\* DeepSleepManager_MarkNtpSynced
Wifi_Synced ==
  /\ wifiPc = "synced"
  /\ results' = [results EXCEPT !.ntpSynced = TRUE,
                                !.ntpSyncTime = networkState.ntpSyncTime]
  /\ wl' = [wl EXCEPT !.preResetCompMs = rtcState.cumulativeCompensationMs]
  /\ wifiPc' = "mark1"
  /\ WorkerFrame
  /\ UNCHANGED << recordVars, timeVars, syncVars, sensorPc, wifiTaskHandle,
                  sensorTaskHandle, eventBits, networkState, wifiParams, h >>


(***************************************************************************)
(* DeepSleepManager_MarkNtpSynced, called by wifiNtpTask. Each action is   *)
(* one group of stores to the record.                                      *)
(***************************************************************************)
MarkFrame ==
  /\ WorkerFrame
  /\ UNCHANGED << timeVars, sensorPc, wifiTaskHandle, sensorTaskHandle, eventBits,
                  results, networkState, wifiParams >>

\* rtcState.lastNtpSyncBootCount = rtcState.bootCount
Mark_BootCount ==
  /\ wifiPc = "mark1"
  /\ rtcState' = [rtcState EXCEPT !.lastNtpSyncBootCount = rtcState.bootCount]
  /\ wifiPc' = "mark2"
  /\ h' = [h EXCEPT !.markSteps = @ + 1]
  /\ MarkFrame
  /\ UNCHANGED << syncVars, wl >>

\* gettimeofday(&ntpTime); previousNtpSyncTime; rtcState.lastNtpSyncTime
Mark_SyncTime ==
  /\ wifiPc = "mark2"
  /\ wl' = [wl EXCEPT !.ntpTime = clock,
                      !.previousNtpSyncTime = rtcState.lastNtpSyncTime]
  /\ rtcState' = [rtcState EXCEPT !.lastNtpSyncTime = clock.sec]
  /\ wifiPc' = "mark3"
  /\ h' = [h EXCEPT !.markSteps = @ + 1]
  /\ MarkFrame
  /\ UNCHANGED syncVars
\* The rate updated whatever time lies between the two syncs
RateUpdateDue_AnyInterval(ntpSec, previousNtpSyncTime) ==
  previousNtpSyncTime > kMinValidTime

\* minutesSinceSync >= 1.0f, with minutesSinceSync = seconds / 60.0f
RateUpdateDue(ntpSec, previousNtpSyncTime) ==
  /\ previousNtpSyncTime > kMinValidTime
  /\ ntpSec - previousNtpSyncTime >= 60

\* The residual drift, or the branch that skips it when the clock before the
\* sync was not a time after 2020.
Mark_Drift ==
  /\ wifiPc = "mark3"
  /\ IF rtcTimeBeforeNtpSync.sec > kMinValidTime
       THEN LET rawDriftMs == TvDiffMs(wl.ntpTime, rtcTimeBeforeNtpSync)
                actualDriftMs == rawDriftMs - ntpSyncDurationMs
            IN  /\ rtcState' = [rtcState EXCEPT !.lastRtcDriftMs = actualDriftMs,
                                                !.lastRtcDriftValid = TRUE]
                /\ wl' = [wl EXCEPT !.actualDriftMs = actualDriftMs]
                /\ wifiPc' = IF RateUpdateDue(wl.ntpTime.sec, wl.previousNtpSyncTime)
                               THEN "mark4" ELSE "mark5"
       ELSE /\ rtcState' = [rtcState EXCEPT !.lastRtcDriftMs = 0,
                                            !.lastRtcDriftValid = FALSE]
            /\ wifiPc' = "mark6"
            /\ UNCHANGED wl
  /\ h' = [h EXCEPT !.markSteps = @ + 1]
  /\ MarkFrame
  /\ UNCHANGED syncVars

\* trueRate = trueDriftMs / minutesSinceSync, in thousandths of ms/min
TrueRate(trueDriftMs, seconds) == (trueDriftMs * 60000) \div seconds

\* clampedRate
ClampedRate(trueRate) ==
  IF trueRate < kMinDriftRate THEN kMinDriftRate
  ELSE IF trueRate > kMaxDriftRate THEN kMaxDriftRate
  ELSE trueRate
\* The update with old rate and sample weighted alike
NewDriftRate_EqualWeights(st, clampedRate) ==
  IF st.driftRateCalibrated
    THEN (st.driftRateMsPerMin * 5 + clampedRate * 5) \div 10
    ELSE clampedRate

\* The stored rate after the update: 40% old and 60% new once calibrated,
\* the clamped sample itself at the first calibration
NewDriftRate(st, clampedRate) ==
  IF st.driftRateCalibrated
    THEN (st.driftRateMsPerMin * 4 + clampedRate * 6) \div 10
    ELSE clampedRate

\* DeepSleepManager_SaveDriftRate: the file after printf("%.2f\n", driftRate),
\* unchanged without storage or when the file cannot be opened
DeepSleepManager_SaveDriftRate(file, rate, opened) ==
  IF sdCardAvailable /\ opened THEN [file EXCEPT !.sd = (rate + 5) \div 10]
  ELSE IF ~sdCardAvailable /\ spiffsMounted /\ opened
         THEN [file EXCEPT !.spiffs = (rate + 5) \div 10]
  ELSE file

\* The update of the drift rate and its copy to storage
Mark_Rate ==
  /\ wifiPc = "mark4"
  /\ pc # "asleep"
  /\ LET trueDriftMs == wl.actualDriftMs + rtcState.cumulativeCompensationMs
         trueRate == TrueRate(trueDriftMs, wl.ntpTime.sec - wl.previousNtpSyncTime)
         newRate == NewDriftRate(rtcState, ClampedRate(trueRate))
     IN  /\ rtcState' = [rtcState EXCEPT !.driftRateMsPerMin = newRate,
                                         !.driftRateCalibrated = TRUE]
         /\ \E opened \in BOOLEAN :
              driftRateFile' = DeepSleepManager_SaveDriftRate(driftRateFile, newRate, opened)
  /\ wifiPc' = "mark5"
  /\ h' = [h EXCEPT !.markSteps = @ + 1,
                    !.rateUpdate =
                      LET trueDriftMs == wl.actualDriftMs + rtcState.cumulativeCompensationMs
                          clampedRate == ClampedRate(TrueRate(trueDriftMs,
                                            wl.ntpTime.sec - wl.previousNtpSyncTime))
                      IN  [done |-> TRUE, calibrated |-> rtcState.driftRateCalibrated,
                           oldRate |-> rtcState.driftRateMsPerMin,
                           clampedRate |-> clampedRate,
                           newRate |-> NewDriftRate(rtcState, clampedRate)]]
  /\ UNCHANGED << pc, initialized, sdCardAvailable, spiffsMounted, lastUploadedFile,
                  mediaVars,
                  timerWakeUs, allDone >>
  /\ UNCHANGED << timeVars, sensorPc, wifiTaskHandle, sensorTaskHandle, eventBits,
                  results, networkState, wifiParams, syncVars, wl >>

\* rtcState.cumulativeCompensationMs = 0
Mark_ResetCompensation ==
  /\ wifiPc = "mark5"
  /\ rtcState' = [rtcState EXCEPT !.cumulativeCompensationMs = 0]
  /\ wifiPc' = "mark6"
  /\ h' = [h EXCEPT !.markSteps = @ + 1]
  /\ MarkFrame
  /\ UNCHANGED << syncVars, wl >>

\* ntpSyncDurationMs = 0; MarkNtpSynced returns
Mark_Return ==
  /\ wifiPc = "mark6"
  /\ ntpSyncDurationMs' = 0
  /\ wifiPc' = "marked"
  /\ h' = [h EXCEPT !.markDone = TRUE]
  /\ MarkFrame
  /\ UNCHANGED << recordVars, rtcTimeBeforeNtpSync, wl >>

\* The task after DeepSleepManager_MarkNtpSynced returned
Wifi_Marked ==
  /\ wifiPc = "marked"
  /\ LET driftValid == rtcState.lastRtcDriftValid
     IN  results' = [results EXCEPT
                       !.driftMeasured = driftValid,
                       !.ntpDriftMs = IF driftValid THEN rtcState.lastRtcDriftMs ELSE 0,
                       !.cumulativeCompMs = IF driftValid THEN wl.preResetCompMs ELSE 0]
  /\ wifiPc' = "signal"
  /\ WorkerFrame
  /\ UNCHANGED << recordVars, timeVars, syncVars, sensorPc, wifiTaskHandle,
                  sensorTaskHandle, eventBits, networkState, wifiParams, wl, h >>

\* Drift-measurement-only mode: NetworkManager_MeasureNtpDrift tries the
\* servers in turn; INT32_MIN when none answers.
Wifi_MeasureDrift ==
  /\ wifiPc = "measure"
  /\ \E answered \in BOOLEAN :
       results' = [results EXCEPT
                     !.driftMeasured = answered,
                     !.ntpDriftMs = IF answered THEN UsToMs(UsSub(trueTime, clock)) ELSE @,
                     !.ntpSynced = FALSE]
  /\ wifiPc' = "signal"
  /\ WorkerFrame
  /\ UNCHANGED << recordVars, timeVars, syncVars, sensorPc, wifiTaskHandle,
                  sensorTaskHandle, eventBits, networkState, wifiParams, wl, h >>

\* xEventGroupSetBits(taskEventGroup, WIFI_TASK_DONE_BIT)
Wifi_Signal ==
  /\ wifiPc = "signal"
  /\ eventBits' = eventBits \cup {WIFI_TASK_DONE_BIT}
  /\ wifiPc' = "clear"
  /\ WorkerFrame
  /\ UNCHANGED << recordVars, timeVars, syncVars, sensorPc, wifiTaskHandle,
                  sensorTaskHandle, results, networkState, wifiParams, wl, h >>

\* wifiTaskHandle = nullptr; vTaskDelete(nullptr)
Wifi_Exit ==
  /\ wifiPc = "clear"
  /\ wifiTaskHandle' = FALSE
  /\ wifiPc' = "gone"
  /\ WorkerFrame
  /\ UNCHANGED << recordVars, timeVars, syncVars, sensorPc, sensorTaskHandle,
                  eventBits, results, networkState, wifiParams, wl, h >>

(***************************************************************************)
(* sensorTask                                                              *)
(***************************************************************************)
SensorRunning == sensorPc \notin {"none", "gone", "killed"}

SensorFrame ==
  /\ WorkerFrame
  /\ UNCHANGED << recordVars, timeVars, syncVars, wifiPc, wifiTaskHandle,
                  networkState, wifiParams, wl, h >>

\* SensorManager_Begin
Sensor_Begin ==
  /\ sensorPc = "start"
  /\ \E ok \in BOOLEAN :
       IF ok THEN /\ results' = [results EXCEPT !.sensorInitialized = TRUE]
                  /\ sensorPc' = "read"
             ELSE /\ results' = [results EXCEPT !.sensorInitialized = FALSE,
                                                !.sensorReady = FALSE]
                  /\ sensorPc' = "signal"
  /\ SensorFrame
  /\ UNCHANGED << sensorTaskHandle, eventBits >>

\* SensorManager_ReadBlocking(6000, true)
Sensor_Read ==
  /\ sensorPc = "read"
  /\ \E ok \in BOOLEAN : results' = [results EXCEPT !.sensorReady = ok]
  /\ sensorPc' = "signal"
  /\ SensorFrame
  /\ UNCHANGED << sensorTaskHandle, eventBits >>

\* xEventGroupSetBits(taskEventGroup, SENSOR_TASK_DONE_BIT)
Sensor_Signal ==
  /\ sensorPc = "signal"
  /\ eventBits' = eventBits \cup {SENSOR_TASK_DONE_BIT}
  /\ sensorPc' = "clear"
  /\ SensorFrame
  /\ UNCHANGED << sensorTaskHandle, results >>

\* sensorTaskHandle = nullptr; vTaskDelete(nullptr)
Sensor_Exit ==
  /\ sensorPc = "clear"
  /\ sensorTaskHandle' = FALSE
  /\ sensorPc' = "gone"
  /\ SensorFrame
  /\ UNCHANGED << eventBits, results >>


(***************************************************************************)
(* ParallelTasks_WaitForCompletion                                         *)
(***************************************************************************)
WaitFrame ==
  UNCHANGED << recordVars, timeVars, initialized, storageVars, syncVars, timerWakeUs,
               results, networkState, wifiParams, wl >>

\* xEventGroupWaitBits returns with both bits set and clears them.
Wait_AllDone ==
  /\ pc = "wait"
  /\ eventBits = ALL_TASKS_DONE
  /\ allDone' = TRUE
  /\ eventBits' = {}
  /\ pc' = "joined"
  /\ h' = [h EXCEPT !.waitReturned = TRUE, !.bitsAtReturn = eventBits]
  /\ WaitFrame
  /\ UNCHANGED << wifiPc, sensorPc, wifiTaskHandle, sensorTaskHandle >>

\* xEventGroupWaitBits returns at the timeout, whatever it is, with a bit
\* missing.
Wait_Timeout ==
  /\ pc = "wait"
  /\ eventBits # ALL_TASKS_DONE
  /\ h.faults < MaxFaults
  /\ allDone' = FALSE
  /\ pc' = "chkWifi"
  /\ h' = [h EXCEPT !.bitsAtReturn = eventBits, !.faults = @ + 1]
  /\ WaitFrame
  /\ UNCHANGED << wifiPc, sensorPc, wifiTaskHandle, sensorTaskHandle, eventBits >>

\* if (wifiTaskHandle != nullptr)
Wait_CheckWifi ==
  /\ pc = "chkWifi"
  /\ pc' = IF wifiTaskHandle THEN "delWifi" ELSE "chkSensor"
  /\ WaitFrame
  /\ UNCHANGED << wifiPc, sensorPc, wifiTaskHandle, sensorTaskHandle, eventBits,
                  allDone, h >>

\* vTaskDelete(wifiTaskHandle); wifiTaskHandle = nullptr. The task may have
\* cleared the handle and deleted itself since the test. When the handle is
\* read again, vTaskDelete(nullptr) deletes the calling task; when the value
\* of the test is used, a task that is gone is deleted again and the
\* controller goes on.
Wait_DeleteWifi ==
  /\ pc = "delWifi"
  /\ IF wifiTaskHandle
       THEN /\ wifiPc' = "killed"
            /\ wifiTaskHandle' = FALSE
            /\ pc' = "chkSensor"
            /\ h' = [h EXCEPT !.killed = @ \cup {WIFI_TASK_DONE_BIT}]
       ELSE /\ pc' \in {"hung", "chkSensor"}
            /\ UNCHANGED << wifiPc, wifiTaskHandle, h >>
  /\ WaitFrame
  /\ UNCHANGED << sensorPc, sensorTaskHandle, eventBits, allDone >>

\* if (sensorTaskHandle != nullptr); without a stuck task the wait returns false
Wait_CheckSensor ==
  /\ pc = "chkSensor"
  /\ IF sensorTaskHandle
       THEN /\ pc' = "delSensor"
            /\ UNCHANGED h
       ELSE /\ pc' = "joined"
            /\ h' = [h EXCEPT !.waitReturned = TRUE]
  /\ WaitFrame
  /\ UNCHANGED << wifiPc, sensorPc, wifiTaskHandle, sensorTaskHandle, eventBits,
                  allDone >>

\* vTaskDelete(sensorTaskHandle); sensorTaskHandle = nullptr; return false
Wait_DeleteSensor ==
  /\ pc = "delSensor"
  /\ IF sensorTaskHandle
       THEN /\ sensorPc' = "killed"
            /\ sensorTaskHandle' = FALSE
            /\ pc' = "joined"
            /\ h' = [h EXCEPT !.killed = @ \cup {SENSOR_TASK_DONE_BIT},
                              !.waitReturned = TRUE]
       ELSE \E stale \in BOOLEAN :
              /\ pc' = IF stale THEN "joined" ELSE "hung"
              /\ h' = [h EXCEPT !.waitReturned = stale]
              /\ UNCHANGED << sensorPc, sensorTaskHandle >>
  /\ WaitFrame
  /\ UNCHANGED << wifiPc, wifiTaskHandle, eventBits, allDone >>

(***************************************************************************)
(* deep_sleep_manager.cpp: the files on the storage media. A store is the  *)
(* part of the state the save and load calls work on:                      *)
(*   sd, spiffs   the flags sdCardAvailable and spiffsMounted              *)
(*   begun        the SPIFFS library holds the mounted file system         *)
(*   frame, drift, uploaded   the three files, each on both media          *)
(*   imageSize    rtcState.imageSize                                       *)
(***************************************************************************)
kFrameBufferSize == 27200

CurrentStore ==
  [ sd |-> sdCardAvailable, spiffs |-> spiffsMounted, begun |-> spiffsBegun,
    frame |-> frameBufferFile, drift |-> driftRateFile, uploaded |-> lastUploadedFile,
    imageSize |-> rtcState.imageSize ]

\* The medium the if / else if chain of every save and load call picks
ActiveMedium(store) ==
  IF store.sd THEN "sd" ELSE IF store.spiffs THEN "spiffs" ELSE "none"

\* SD.open / SPIFFS.open hands back a file: the medium lets it, and the
\* SPIFFS library refuses every call once SPIFFS.end() has run.
FileOpens(store, opened) ==
  /\ opened
  /\ ActiveMedium(store) = "spiffs" => store.begun

\* The size of a file on the active medium, NoFile when there is none
FileOn(store, file) ==
  IF ActiveMedium(store) = "sd" THEN file.sd
  ELSE IF ActiveMedium(store) = "spiffs" /\ store.begun THEN file.spiffs
  ELSE NoFile

\* Every write going to the SD card's file, whatever medium is active
WithFile_SdOnly(store, file, content) == [file EXCEPT !.sd = content]

\* A file of the active medium replaced
WithFile(store, file, content) ==
  IF ActiveMedium(store) = "sd" THEN [file EXCEPT !.sd = content]
  ELSE [file EXCEPT !.spiffs = content]

\* SPIFFS.end() and SPIFFS.format(): the library lets go of the file
\* system; a format that succeeds leaves no file on the medium.
SpiffsReformatted(store, formatOk) ==
  [store EXCEPT !.begun = FALSE,
                !.frame = IF formatOk THEN [@ EXCEPT !.spiffs = NoFile] ELSE @,
                !.drift = IF formatOk THEN [@ EXCEPT !.spiffs = 0] ELSE @,
                !.uploaded = IF formatOk THEN [@ EXCEPT !.spiffs = 0] ELSE @]

\* The self-repair of DeepSleepManager_SaveFrameBuffer run after a short
\* write on either medium
RepairDue_AnyMedium(store) == TRUE

\* if (!sdCardAvailable && spiffsMounted)
RepairDue(store) == ~store.sd /\ store.spiffs

\* rtcState.imageSize = size, only under written == size
ImageSizeAfterWrite(imageSize, size, written) ==
  IF written = size THEN size ELSE imageSize

\* DeepSleepManager_SaveFrameBuffer(buffer, size): the value returned and
\* the store after the call. opened, written and formatOk are what the
\* medium does: whether the file opens, how many bytes file.write takes and
\* whether SPIFFS.format succeeds.
DeepSleepManager_SaveFrameBuffer(store, size, opened, written, formatOk) ==
  IF ActiveMedium(store) = "none" \/ ~FileOpens(store, opened)
    THEN [ret |-> FALSE, store |-> store, formatted |-> FALSE]
    ELSE LET wrote == [store EXCEPT
                         !.frame = WithFile(store, @, written),
                         !.imageSize = ImageSizeAfterWrite(@, size, written)]
         IN  IF written = size
               THEN [ret |-> TRUE, store |-> wrote, formatted |-> FALSE]
               ELSE IF RepairDue(store)
                      THEN [ret |-> FALSE, store |-> SpiffsReformatted(wrote, formatOk),
                            formatted |-> TRUE]
                      ELSE [ret |-> FALSE, store |-> wrote, formatted |-> FALSE]

\* DeepSleepManager_LoadFrameBuffer with the test of the file's size left out
LoadFrameBuffer_NoSizeCheck(store, size, opened, read) ==
  /\ store.imageSize # 0
  /\ ActiveMedium(store) # "none"
  /\ FileOn(store, store.frame) # NoFile
  /\ FileOpens(store, opened)
  /\ read = size

\* DeepSleepManager_LoadFrameBuffer(buffer, size): the value returned.
\* opened is whether the file opens, read the bytes file.read hands back.
DeepSleepManager_LoadFrameBuffer(store, size, opened, read) ==
  /\ store.imageSize # 0
  /\ ActiveMedium(store) # "none"
  /\ FileOn(store, store.frame) # NoFile
  /\ FileOpens(store, opened)
  /\ FileOn(store, store.frame) = store.imageSize
  /\ FileOn(store, store.frame) = size
  /\ read = size
\* DeepSleepManager_SaveDriftRate with the digits after the second decimal
\* cut off instead of rounded
StoreAfterSaveDriftRate_Truncated(store, rate, opened) ==
  IF ActiveMedium(store) = "none" \/ ~FileOpens(store, opened) THEN store
  ELSE [store EXCEPT !.drift = WithFile(store, @, rate \div 10)]

\* The store after DeepSleepManager_SaveDriftRate(driftRate): the file holds
\* the rate to two decimals.
StoreAfterSaveDriftRate(store, rate, opened) ==
  IF ActiveMedium(store) = "none" \/ ~FileOpens(store, opened) THEN store
  ELSE [store EXCEPT !.drift = WithFile(store, @, (rate + 5) \div 10)]

\* DeepSleepManager_LoadDriftRate(), in thousandths of ms/min
StoredDriftRate(store, opened) ==
  IF ActiveMedium(store) = "none" \/ FileOn(store, store.drift) <= 0
       \/ ~FileOpens(store, opened)
    THEN 0
    ELSE FileOn(store, store.drift) * 10

\* The store after DeepSleepManager_SaveLastUploadedTime(timestamp)
StoreAfterSaveLastUploadedTime(store, timestamp, opened) ==
  IF ActiveMedium(store) = "none" \/ ~FileOpens(store, opened) THEN store
  ELSE [store EXCEPT !.uploaded = WithFile(store, @, timestamp)]

\* DeepSleepManager_LoadLastUploadedTime()
StoredLastUploadedTime(store, opened) ==
  IF ActiveMedium(store) = "none" \/ FileOn(store, store.uploaded) <= 0
       \/ ~FileOpens(store, opened)
    THEN 0
    ELSE FileOn(store, store.uploaded)

(***************************************************************************)
(* display_manager.cpp: performUpdate, as far as it touches the clock and   *)
(* the displayed minute. Its calls to the panel and to the frame buffer    *)
(* file are the display paths of SpecStorage.                              *)
(***************************************************************************)
\* The controller waits out the rest of the minute before it redraws.
WaitForMinute ==
  /\ pc = "joined"
  /\ getLocalTime(clock)
  /\ LET d == (60 - tm_sec(clock)) * US - clock.usec
     IN  /\ clock' = TvAddUs(clock, d)
         /\ trueTime' = TvAddUs(trueTime, d)
         /\ uptimeUs' = uptimeUs + d
  /\ pc' = "minute"
  /\ UNCHANGED << recordVars, initialized, storageVars, syncVars, timerWakeUs,
                  taskVars, h >>

performUpdate ==
  /\ pc \in {"joined", "minute"}
  /\ LET fallback == ~getLocalTime(clock)
         tv == IF fallback THEN NetworkManager_SetupTimeFromRTC(rtcState, clock, uptimeUs)
                           ELSE clock
         timeAvailable == getLocalTime(tv)
     IN  /\ clock' = tv
         /\ rtcState' = IF timeAvailable
                          THEN [rtcState EXCEPT !.lastDisplayedMinute = tm_min(tv)]
                          ELSE rtcState
         /\ h' = [h EXCEPT !.wakeCompUs =
                     IF fallback /\ rtcState.savedTime > 0 THEN 0 ELSE @]
  /\ pc' = "shown"
  /\ UNCHANGED << trueTime, uptimeUs, initialized, storageVars, syncVars, timerWakeUs,
                  taskVars >>

(***************************************************************************)
(* The system                                                              *)
(***************************************************************************)
Next ==
  \/ TimerWake
  \/ RtcMemoryLost
  \/ PowerCycle
  \/ DeepSleepManager_Init
  \/ ParallelTasks_StartWiFiAndSensor
  \/ Wifi_Start
  \/ Wifi_Connect
  \/ Wifi_SyncBegin
  \/ Wifi_TryNtpServer
  \/ Wifi_SyncSetTime
  \/ Wifi_SyncFail
  \/ Wifi_SetupTimeFromRTC
  \/ Wifi_Synced
  \/ Mark_BootCount
  \/ Mark_SyncTime
  \/ Mark_Drift
  \/ Mark_Rate
  \/ Mark_ResetCompensation
  \/ Mark_Return
  \/ Wifi_Marked
  \/ Wifi_MeasureDrift
  \/ Wifi_Signal
  \/ Wifi_Exit
  \/ Sensor_Begin
  \/ Sensor_Read
  \/ Sensor_Signal
  \/ Sensor_Exit
  \/ Wait_AllDone
  \/ Wait_Timeout
  \/ Wait_CheckWifi
  \/ Wait_DeleteWifi
  \/ Wait_CheckSensor
  \/ Wait_DeleteSensor
  \/ WaitForMinute
  \/ performUpdate
  \/ DeepSleepManager_EnterDeepSleep

Spec == Init /\ [][Next]_vars

(***************************************************************************)
(* tryNtpServer on its own: one client clock, one server clock, queries    *)
(* with every combination of clock difference, one-way delay and server    *)
(* processing time.                                                        *)
(***************************************************************************)
MaxNtpQueries == 2

NtpClientClocks == { Tv(1, 300217), Tv(TrueBootSec, 0), Tv(TrueBootSec, 999999) }
NtpServerClocks ==
  { Tv(TrueBootSec - 4, 499999), Tv(TrueBootSec, 0), Tv(TrueBootSec, 1),
    Tv(TrueBootSec, 145000), Tv(TrueBootSec + 2, 999999) }
NtpOneWayDelayUs == { 0, 1, 20000, 1500000 }
NtpServerProcessingUs == { 0, 37, 1000000 }

\* The variables tryNtpServer does not touch
ntpIdleVars ==
  << rtcState, uptimeUs, initialized, sdCardAvailable, spiffsMounted,
     rtcTimeBeforeNtpSync, ntpSyncDurationMs, driftRateFile, lastUploadedFile, mediaVars,
     timerWakeUs, wifiPc, sensorPc, wifiTaskHandle, sensorTaskHandle, eventBits,
     results, networkState, wifiParams, allDone >>

InitNtp ==
  /\ rtcState = RTCStateDefault
  /\ clock \in NtpClientClocks
  /\ trueTime \in NtpServerClocks
  /\ uptimeUs = 0
  /\ pc = "ntp"
  /\ initialized = FALSE
  /\ sdCardAvailable = FALSE
  /\ spiffsMounted = FALSE
  /\ rtcTimeBeforeNtpSync = Tv(0, 0)
  /\ ntpSyncDurationMs = 0
  /\ driftRateFile = [sd |-> 0, spiffs |-> 0]
  /\ lastUploadedFile = [sd |-> 0, spiffs |-> 0]
  /\ frameBufferFile = [sd |-> NoFile, spiffs |-> NoFile]
  /\ spiffsBegun = FALSE
  /\ epdAsleep = FALSE
  /\ timerWakeUs = 0
  /\ wifiPc = "try"
  /\ sensorPc = "none"
  /\ wifiTaskHandle = TRUE
  /\ sensorTaskHandle = FALSE
  /\ eventBits = {}
  /\ results = ParallelTaskResultsDefault
  /\ networkState = NetworkStateDefault
  /\ wifiParams = [needWifiSync |-> TRUE, measureDriftOnly |-> FALSE]
  /\ wl = WifiLocalsDefault
  /\ allDone = FALSE
  /\ h = [ queries |-> 0, d |-> Tv(0, 0), w |-> 0, p |-> 0, t4 |-> Tv(0, 0),
           set |-> FALSE ]

\* tryNtpServer with a server that answers: the request leaves at t1 of the
\* client clock, reaches the server w microseconds later, the server takes p
\* microseconds, the response takes w microseconds back.
Ntp_Query ==
  /\ pc = "ntp"
  /\ h.queries < MaxNtpQueries
  /\ \E w \in NtpOneWayDelayUs, p \in NtpServerProcessingUs :
       \E st2 \in ServerStamps(TvAddUs(trueTime, w)),
          st3 \in ServerStamps(TvAddUs(trueTime, w + p)) :
         LET t1 == clock
             t2 == ntpTimestampToUnixUs(st2.sec, st2.frac)
             t3 == ntpTimestampToUnixUs(st3.sec, st3.frac)
             t4 == TvAddUs(clock, 2 * w + p)
         IN  /\ wl' = [wl EXCEPT
                         !.offsetUs = NtpOffsetUs(t1, t2, t3, t4),
                         !.rttUs = NtpRttUs(t1, t2, t3, t4),
                         !.correctedUnixUsAtReceive = NtpCorrectedAtReceive(t1, t2, t3, t4)]
             /\ clock' = t4
             /\ trueTime' = TvAddUs(trueTime, 2 * w + p)
             /\ h' = [ queries |-> h.queries + 1, d |-> UsSub(trueTime, clock),
                       w |-> w, p |-> p, t4 |-> t4, set |-> FALSE ]
  /\ UNCHANGED << pc, ntpIdleVars >>

\* settimeofday with the corrected time, no time having passed since the
\* response was received
Ntp_SetTime ==
  /\ pc = "ntp"
  /\ h.queries > 0
  /\ ~h.set
  /\ clock' = CorrectedNow(wl.correctedUnixUsAtReceive, wl.offsetUs, clock)
  /\ h' = [h EXCEPT !.set = TRUE]
  /\ UNCHANGED << trueTime, wl, pc, ntpIdleVars >>

NextNtp == Ntp_Query \/ Ntp_SetTime

SpecNtp == InitNtp /\ [][NextNtp]_vars

(***************************************************************************)
(* DeepSleepManager_ShouldSyncWiFiNtp on its own: every minute of the hour *)
(* against every lastDisplayedMinute and a record that was or was never    *)
(* synchronised.                                                           *)
(***************************************************************************)
HourStartSec == TrueBootSec - 58 * 60 - 38

SyncBootCounts == {0, 1, 7}
DisplayedMinutes == (0..59) \cup {kNoMinute}
SecondsOfMinute == {0, 59}

InitShouldSync ==
  /\ \E b \in SyncBootCounts, last \in DisplayedMinutes :
       rtcState = [RTCStateDefault EXCEPT !.magic = TRUE, !.bootCount = b + 1,
                                          !.lastNtpSyncBootCount = b,
                                          !.lastDisplayedMinute = last]
  /\ \E m \in 0..59, sec \in SecondsOfMinute :
       /\ clock = Tv(HourStartSec + 60 * m + sec, 0)
       /\ trueTime = clock
  /\ uptimeUs = 0
  /\ pc = "decide"
  /\ initialized = TRUE
  /\ sdCardAvailable = FALSE
  /\ spiffsMounted = FALSE
  /\ rtcTimeBeforeNtpSync = Tv(0, 0)
  /\ ntpSyncDurationMs = 0
  /\ driftRateFile = [sd |-> 0, spiffs |-> 0]
  /\ lastUploadedFile = [sd |-> 0, spiffs |-> 0]
  /\ frameBufferFile = [sd |-> NoFile, spiffs |-> NoFile]
  /\ spiffsBegun = FALSE
  /\ epdAsleep = FALSE
  /\ timerWakeUs = 0
  /\ wifiPc = "none"
  /\ sensorPc = "none"
  /\ wifiTaskHandle = FALSE
  /\ sensorTaskHandle = FALSE
  /\ eventBits = {}
  /\ results = ParallelTaskResultsDefault
  /\ networkState = NetworkStateDefault
  /\ wifiParams = [needWifiSync |-> FALSE, measureDriftOnly |-> FALSE]
  /\ wl = WifiLocalsDefault
  /\ allDone = FALSE
  /\ h = [ decided |-> FALSE ]

\* The caller asks whether the sync is due and keeps the answer.
ShouldSync_Decide ==
  /\ pc = "decide"
  /\ wifiParams' = [wifiParams EXCEPT
                      !.needWifiSync = DeepSleepManager_ShouldSyncWiFiNtp(rtcState, clock)]
  /\ pc' = "decided"
  /\ h' = [ decided |-> TRUE ]
  /\ UNCHANGED << recordVars, timeVars, initialized, storageVars, syncVars, timerWakeUs,
                  wifiPc, sensorPc, wifiTaskHandle, sensorTaskHandle, eventBits,
                  results, networkState, wl, allDone >>

NextShouldSync == ShouldSync_Decide

SpecShouldSync == InitShouldSync /\ [][NextShouldSync]_vars


(***************************************************************************)
(* The wake cycle around one hour boundary: timer wakes and HOME button    *)
(* wakes (ext0), the decision of DeepSleepManager_ShouldSyncWiFiNtp on     *)
(* each wake, the sync, the redraw and the next sleep.                     *)
(***************************************************************************)
MaxHourWakes == 4

\* The minute the device showed before it first went to sleep
HourFirstMinutes == {57, 58}
\* How long after the power-down the HOME button is pressed
ButtonPressAfterUs == {1 * US, 30 * US}

\* The hour boundary nearest to a time
NearestHour(sec) == ((sec + 1800) \div 3600) * 3600

\* clampedRate of DeepSleepManager_MarkNtpSynced; the quotient is formed
\* only where the clamp does not already decide the result.
ClampedTrueRate(trueDriftMs, seconds) ==
  IF trueDriftMs <= 0 THEN kMinDriftRate
  ELSE IF trueDriftMs >= 5 * seconds THEN kMaxDriftRate
  ELSE ClampedRate(TrueRate(trueDriftMs, seconds))

\* The record after DeepSleepManager_MarkNtpSynced ran to its end, with the
\* clock just set to ntpTime, rtcBefore the clock before the sync and
\* syncDurationMs the time the sync took.
MarkedRecord(st, ntpTime, rtcBefore, syncDurationMs) ==
  LET previousNtpSyncTime == st.lastNtpSyncTime
      s1 == [st EXCEPT !.lastNtpSyncBootCount = st.bootCount,
                       !.lastNtpSyncTime = ntpTime.sec]
  IN  IF rtcBefore.sec > kMinValidTime
        THEN LET actualDriftMs == TvDiffMs(ntpTime, rtcBefore) - syncDurationMs
                 s2 == [s1 EXCEPT !.lastRtcDriftMs = actualDriftMs,
                                  !.lastRtcDriftValid = TRUE]
                 trueDriftMs == actualDriftMs + s2.cumulativeCompensationMs
                 s3 == IF RateUpdateDue(ntpTime.sec, previousNtpSyncTime)
                         THEN [s2 EXCEPT
                                 !.driftRateMsPerMin =
                                    NewDriftRate(s2, ClampedTrueRate(trueDriftMs,
                                                  ntpTime.sec - previousNtpSyncTime)),
                                 !.driftRateCalibrated = TRUE]
                         ELSE s2
             IN  [s3 EXCEPT !.cumulativeCompensationMs = 0]
        ELSE [s1 EXCEPT !.lastRtcDriftMs = 0, !.lastRtcDriftValid = FALSE]

\* The variables the wake cycle leaves alone
hourIdleVars ==
  << initialized, sdCardAvailable, spiffsMounted, rtcTimeBeforeNtpSync,
     ntpSyncDurationMs, driftRateFile, lastUploadedFile, mediaVars, wifiPc, sensorPc,
     wifiTaskHandle, sensorTaskHandle, eventBits, results, networkState, wl,
     allDone >>

\* The device sleeps: it was powered on in minute 57 or 58, synchronised on
\* that first boot, drew the next minute at its start and powered down.
InitHour ==
  /\ \E m \in HourFirstMinutes :
       LET shown == Tv(HourStartSec + 60 * m, 0)
           st == [RTCStateDefault EXCEPT !.magic = TRUE, !.bootCount = 1,
                                         !.lastNtpSyncBootCount = 1,
                                         !.lastNtpSyncTime = shown.sec - 22,
                                         !.lastDisplayedMinute = m,
                                         !.savedTime = shown.sec,
                                         !.savedTimeUs = shown.usec]
           sleepDuration == DeepSleepManager_CalculateSleepDuration(shown, st)
       IN  /\ rtcState = [st EXCEPT !.sleepDurationUs = sleepDuration]
           /\ clock = shown
           /\ trueTime = shown
           /\ timerWakeUs = sleepDuration
  /\ uptimeUs = 0
  /\ pc = "asleep"
  /\ initialized = FALSE
  /\ sdCardAvailable = FALSE
  /\ spiffsMounted = FALSE
  /\ rtcTimeBeforeNtpSync = Tv(0, 0)
  /\ ntpSyncDurationMs = 0
  /\ driftRateFile = [sd |-> 0, spiffs |-> 0]
  /\ lastUploadedFile = [sd |-> 0, spiffs |-> 0]
  /\ frameBufferFile = [sd |-> NoFile, spiffs |-> NoFile]
  /\ spiffsBegun = FALSE
  /\ epdAsleep = FALSE
  /\ wifiPc = "none"
  /\ sensorPc = "none"
  /\ wifiTaskHandle = FALSE
  /\ sensorTaskHandle = FALSE
  /\ eventBits = {}
  /\ results = ParallelTaskResultsDefault
  /\ networkState = NetworkStateDefault
  /\ wifiParams = [needWifiSync |-> FALSE, measureDriftOnly |-> FALSE]
  /\ wl = WifiLocalsDefault
  /\ allDone = FALSE
  /\ h = [ wakes |-> 0, buttons |-> 0, dueAt |-> << >>, synced |-> 0,
           sleptUs |-> 0 ]            \* the time the last sleep lasted

\* The program starts after a sleep and DeepSleepManager_Init runs: the boot
\* is counted and restoreTimeFromRTC sets the clock from the saved time and
\* the intended sleep duration, whatever ended the sleep.
HourBoot(sleptUs) ==
  /\ pc = "asleep"
  /\ h.wakes < MaxHourWakes
  /\ \E b \in BootOverheadUs :
       /\ trueTime' = TvAddUs(trueTime, sleptUs + b)
       /\ clock' = RestoredTime(rtcState, b)
       /\ uptimeUs' = b
  /\ rtcState' = RestoredRecord(CountBoot(rtcState, FALSE))
  /\ timerWakeUs' = 0
  /\ pc' = "woke"

\* esp_sleep_enable_timer_wakeup: the timer ends the sleep.
Hour_TimerWake ==
  /\ \E d \in SleepDriftUs :
       /\ HourBoot(timerWakeUs + d)
       /\ h' = [h EXCEPT !.wakes = @ + 1, !.sleptUs = timerWakeUs + d]
  /\ UNCHANGED << wifiParams, hourIdleVars >>

\* esp_sleep_enable_ext0_wakeup: the HOME button ends the sleep before the
\* timer does.
Hour_ButtonWake ==
  /\ \E press \in ButtonPressAfterUs :
       /\ press < timerWakeUs
       /\ HourBoot(press)
       /\ h' = [h EXCEPT !.wakes = @ + 1, !.buttons = @ + 1, !.sleptUs = press]
  /\ UNCHANGED << wifiParams, hourIdleVars >>

\* The controller asks whether the sync is due on this wake.
Hour_DecideSync ==
  /\ pc = "woke"
  /\ LET due == DeepSleepManager_ShouldSyncWiFiNtp(rtcState, clock)
     IN  /\ wifiParams' = [wifiParams EXCEPT !.needWifiSync = due]
         /\ h' = [h EXCEPT !.dueAt = IF due THEN Append(@, trueTime.sec) ELSE @]
  /\ pc' = "decided"
  /\ UNCHANGED << recordVars, timeVars, timerWakeUs, hourIdleVars >>

\* The sync was due and a server answered: the clock is set to the time of
\* the server and DeepSleepManager_MarkNtpSynced runs.
Hour_SyncNtp ==
  /\ pc = "decided"
  /\ wifiParams.needWifiSync
  /\ \E d \in NetDelayUs :
       LET now == TvAddUs(trueTime, 2 * d)
       IN  /\ trueTime' = now
           /\ clock' = now
           /\ uptimeUs' = uptimeUs + 2 * d
           /\ rtcState' = MarkedRecord(rtcState, now, clock, (2 * d) \div 1000)
  /\ pc' = "joined"
  /\ h' = [h EXCEPT !.synced = @ + 1]
  /\ UNCHANGED << timerWakeUs, wifiParams, hourIdleVars >>

\* The sync was due and WiFi did not connect: the worker falls back to
\* NetworkManager_SetupTimeFromRTC.
Hour_SyncFail ==
  /\ pc = "decided"
  /\ wifiParams.needWifiSync
  /\ clock' = NetworkManager_SetupTimeFromRTC(rtcState, clock, uptimeUs)
  /\ pc' = "joined"
  /\ UNCHANGED << recordVars, trueTime, uptimeUs, timerWakeUs, wifiParams,
                  hourIdleVars, h >>

\* The sync was not due: no network worker is started.
Hour_NoSync ==
  /\ pc = "decided"
  /\ ~wifiParams.needWifiSync
  /\ pc' = "joined"
  /\ UNCHANGED << recordVars, timeVars, timerWakeUs, wifiParams, hourIdleVars, h >>

\* The device woke in the minute it already shows: the controller waits out
\* the rest of the minute before it redraws.
Hour_WaitForMinute ==
  /\ pc = "joined"
  /\ tm_min(clock) = rtcState.lastDisplayedMinute
  /\ LET d == (60 - tm_sec(clock)) * US - clock.usec
     IN  /\ clock' = TvAddUs(clock, d)
         /\ trueTime' = TvAddUs(trueTime, d)
         /\ uptimeUs' = uptimeUs + d
  /\ pc' = "minute"
  /\ UNCHANGED << recordVars, timerWakeUs, wifiParams, hourIdleVars, h >>

\* performUpdate(networkState, false, false): nothing is drawn while the
\* minute is the one shown; else the minute is drawn and remembered.
Hour_performUpdate ==
  /\ \/ pc = "minute"
     \/ pc = "joined" /\ tm_min(clock) # rtcState.lastDisplayedMinute
  /\ LET currentMinute == tm_min(clock)
     IN  rtcState' = IF currentMinute = rtcState.lastDisplayedMinute
                       THEN rtcState
                       ELSE [rtcState EXCEPT !.lastDisplayedMinute = currentMinute]
  /\ pc' = "shown"
  /\ UNCHANGED << timeVars, timerWakeUs, wifiParams, hourIdleVars, h >>

\* DeepSleepManager_EnterDeepSleep
Hour_EnterDeepSleep ==
  /\ pc = "shown"
  /\ LET sleepDuration == DeepSleepManager_CalculateSleepDuration(clock, rtcState)
     IN  /\ rtcState' = [rtcState EXCEPT !.savedTime = clock.sec,
                                         !.savedTimeUs = clock.usec,
                                         !.sleepDurationUs = sleepDuration]
         /\ timerWakeUs' = sleepDuration
  /\ pc' = "asleep"
  /\ UNCHANGED << timeVars, wifiParams, hourIdleVars, h >>

NextHour ==
  \/ Hour_TimerWake
  \/ Hour_ButtonWake
  \/ Hour_DecideSync
  \/ Hour_SyncNtp
  \/ Hour_SyncFail
  \/ Hour_NoSync
  \/ Hour_WaitForMinute
  \/ Hour_performUpdate
  \/ Hour_EnterDeepSleep

SpecHour == InitHour /\ [][NextHour]_vars


(***************************************************************************)
(* DeepSleepManager_CalculateSleepDuration on its own: every second of the *)
(* minute, the millisecond part of the clock and the processing estimate.  *)
(***************************************************************************)
\* tv_usec / 1000 of the clock
SleepMillis == {0, 1, 300, 999}
\* tv_usec % 1000 of the clock
SleepSubMillisUs == {0, 999}
\* Clocks before the first sync, for which getLocalTime fails
UnsetClocks == { Tv(1, 300217) }

sleepIdleVars ==
  << trueTime, uptimeUs, initialized, sdCardAvailable, spiffsMounted,
     rtcTimeBeforeNtpSync, ntpSyncDurationMs, driftRateFile, lastUploadedFile, mediaVars,
     wifiPc, sensorPc, wifiTaskHandle, sensorTaskHandle, eventBits, results,
     networkState, wifiParams, wl, allDone >>

InitSleep ==
  /\ \E p \in ProcessingEstimatesMs :
       rtcState = [RTCStateDefault EXCEPT !.magic = TRUE, !.bootCount = 1,
                                          !.lastNtpSyncBootCount = 1,
                                          !.estimatedProcessingTime = p]
  /\ \/ \E s \in 0..59, m \in SleepMillis, u \in SleepSubMillisUs :
          clock = Tv(HourStartSec + 23 * 60 + s, m * 1000 + u)
     \/ clock \in UnsetClocks
  /\ trueTime = clock
  /\ uptimeUs = 0
  /\ pc = "calculate"
  /\ initialized = TRUE
  /\ sdCardAvailable = FALSE
  /\ spiffsMounted = FALSE
  /\ rtcTimeBeforeNtpSync = Tv(0, 0)
  /\ ntpSyncDurationMs = 0
  /\ driftRateFile = [sd |-> 0, spiffs |-> 0]
  /\ lastUploadedFile = [sd |-> 0, spiffs |-> 0]
  /\ frameBufferFile = [sd |-> NoFile, spiffs |-> NoFile]
  /\ spiffsBegun = FALSE
  /\ epdAsleep = FALSE
  /\ timerWakeUs = 0
  /\ wifiPc = "none"
  /\ sensorPc = "none"
  /\ wifiTaskHandle = FALSE
  /\ sensorTaskHandle = FALSE
  /\ eventBits = {}
  /\ results = ParallelTaskResultsDefault
  /\ networkState = NetworkStateDefault
  /\ wifiParams = [needWifiSync |-> FALSE, measureDriftOnly |-> FALSE]
  /\ wl = WifiLocalsDefault
  /\ allDone = FALSE
  /\ h = [ calculated |-> FALSE ]

\* uint64_t sleepDuration = DeepSleepManager_CalculateSleepDuration()
Sleep_Calculate ==
  /\ pc = "calculate"
  /\ timerWakeUs' = DeepSleepManager_CalculateSleepDuration(clock, rtcState)
  /\ pc' = "calculated"
  /\ h' = [ calculated |-> TRUE ]
  /\ UNCHANGED << rtcState, clock, sleepIdleVars >>

NextSleep == Sleep_Calculate

SpecSleep == InitSleep /\ [][NextSleep]_vars


(***************************************************************************)
(* SpecStorage: the storage media and the display over a few wake cycles.  *)
(* A wake mounts a medium, then runs display paths of display_manager.cpp, *)
(* recalibrations and last-upload saves in any order; every open, write,   *)
(* read and format may fail. pc is [path, step]: the path being run and    *)
(* the position in it.                                                     *)
(***************************************************************************)
MaxStorageWakes == 2
MaxCallsPerWake == 2

\* The clamped samples the recalibrations feed, in thousandths of ms/min
RateSamples == {20000, 299996}
\* The timestamps of uploaded data points
UploadTimes == {1767225600, 1767229200}

\* The power and storage calls of each display path, in the order of the code
DisplayPaths ==
  [ InitWake         |-> << "EPD_FastMode1Init", "LoadFrameBuffer", "EPD_Display" >>,
    InitCold         |-> << "EPD_FastMode1Init", "EPD_Display" >>,
    performUpdate    |-> << "EPD_Display", "EPD_DeepSleep", "SaveFrameBuffer" >>,
    UpdateSensorOnly |-> << "EPD_Display", "EPD_DeepSleep", "SaveFrameBuffer" >>,
    UpdateTimeOnly   |-> << "EPD_Display" >> ]

\* performUpdate with the frame buffer saved before EPD_DeepSleep()
StepsOf_SaveFirst(path) ==
  IF path = "performUpdate" THEN << "EPD_Display", "SaveFrameBuffer", "EPD_DeepSleep" >>
  ELSE DisplayPaths[path]

StepsOf(path) == DisplayPaths[path]

Ready == [path |-> "ready", step |-> 0]
Booting == [path |-> "boot", step |-> 0]

InPath == pc.path \in DOMAIN DisplayPaths
CurrentStep == StepsOf(pc.path)[pc.step]
AfterStep == IF pc.step = Len(StepsOf(pc.path)) THEN Ready ELSE [pc EXCEPT !.step = @ + 1]

\* SPIFFS.begin(true) with SD.begin tried or not
SpiffsTried_Always(sdBegins) == TRUE

\* SPIFFS.begin(true) sits in the else of if (SD.begin(...))
SpiffsTried(sdBegins) == ~sdBegins

\* The flags after the mount: sdBegins and spiffsBegins are what SD.begin
\* and SPIFFS.begin(true) answer
MountedMedia(sdBegins, spiffsBegins) ==
  [ sd |-> sdBegins, spiffs |-> SpiffsTried(sdBegins) /\ spiffsBegins ]

\* The store of a device that never mounted or wrote anything
EmptyStore ==
  [ sd |-> FALSE, spiffs |-> FALSE, begun |-> FALSE,
    frame |-> [sd |-> NoFile, spiffs |-> NoFile], drift |-> [sd |-> 0, spiffs |-> 0],
    uploaded |-> [sd |-> 0, spiffs |-> 0], imageSize |-> 0 ]

NoCall ==
  [ name |-> "none", path |-> "none", opened |-> FALSE, moved |-> 0, ret |-> 0,
    formatted |-> FALSE, asleep |-> FALSE, record |-> RTCStateDefault,
    before |-> EmptyStore, after |-> EmptyStore ]

\* The record of one call of the storage interface: its outcomes, its
\* result, rtcState when it is entered, and the store before and after it
Call(name, opened, moved, ret, formatted, record, after) ==
  [ name |-> name, path |-> pc.path, opened |-> opened, moved |-> moved, ret |-> ret,
    formatted |-> formatted, asleep |-> epdAsleep, record |-> record,
    before |-> [CurrentStore EXCEPT !.imageSize = record.imageSize], after |-> after ]

storageIdleVars ==
  << clock, trueTime, uptimeUs, rtcTimeBeforeNtpSync, ntpSyncDurationMs, timerWakeUs,
     taskVars >>

InitStorage ==
  /\ rtcState = RTCStateDefault
  /\ clock = Tv(HourStartSec, 0)
  /\ trueTime = clock
  /\ uptimeUs = 0
  /\ pc = Booting
  /\ initialized = FALSE
  /\ sdCardAvailable = FALSE
  /\ spiffsMounted = FALSE
  /\ rtcTimeBeforeNtpSync = Tv(0, 0)
  /\ ntpSyncDurationMs = 0
  /\ driftRateFile = [sd |-> 0, spiffs |-> 0]
  /\ lastUploadedFile = [sd |-> 0, spiffs |-> 0]
  /\ frameBufferFile = [sd |-> NoFile, spiffs |-> NoFile]
  /\ spiffsBegun = FALSE
  /\ epdAsleep = FALSE
  /\ timerWakeUs = 0
  /\ wifiPc = "none"
  /\ sensorPc = "none"
  /\ wifiTaskHandle = FALSE
  /\ sensorTaskHandle = FALSE
  /\ eventBits = {}
  /\ results = ParallelTaskResultsDefault
  /\ networkState = NetworkStateDefault
  /\ wifiParams = [needWifiSync |-> FALSE, measureDriftOnly |-> FALSE]
  /\ wl = WifiLocalsDefault
  /\ allDone = FALSE
  /\ h = [ wakes |-> 1, calls |-> 0, formats |-> 0, coldBoot |-> TRUE,
           sdBegins |-> FALSE, spiffsTried |-> FALSE,
           lastRate |-> [sd |-> 0, spiffs |-> 0],
           lastUpload |-> [sd |-> 0, spiffs |-> 0],
           call |-> NoCall ]

\* DeepSleepManager_Init: the boot count, the mount of a medium and the
\* restore of the mirrored fields. The record is valid and holds no saved
\* time in this specification, so the reset and the time restore do not run.
Storage_Init ==
  /\ pc = Booting
  /\ ~initialized
  /\ \E sdBegins \in BOOLEAN, spiffsBegins \in BOOLEAN :
       LET media == MountedMedia(sdBegins, spiffsBegins)
           counted == CountBoot(rtcState, initialized)
       IN  /\ sdCardAvailable' = media.sd
           /\ spiffsMounted' = media.spiffs
           /\ spiffsBegun' = media.spiffs
           /\ rtcState' = RestoreFromStorage(counted, media.sd, media.spiffs)
           /\ h' = [h EXCEPT !.sdBegins = sdBegins,
                             !.spiffsTried = SpiffsTried(sdBegins),
                             !.call = NoCall]
  /\ initialized' = TRUE
  /\ pc' = Ready
  /\ UNCHANGED << driftRateFile, lastUploadedFile, frameBufferFile, epdAsleep,
                  storageIdleVars >>

\* A display path of display_manager.cpp starts
Display_Start ==
  /\ pc = Ready
  /\ h.calls < MaxCallsPerWake
  /\ \E path \in DOMAIN DisplayPaths : pc' = [path |-> path, step |-> 1]
  /\ h' = [h EXCEPT !.calls = @ + 1, !.call = NoCall]
  /\ UNCHANGED << rtcState, initialized, storageVars, storageIdleVars >>

\* EPD_FastMode1Init(): the display controller is reset and awake
Display_EPD_FastMode1Init ==
  /\ InPath /\ CurrentStep = "EPD_FastMode1Init"
  /\ epdAsleep' = FALSE
  /\ pc' = AfterStep
  /\ UNCHANGED << rtcState, initialized, sdCardAvailable, spiffsMounted, driftRateFile,
                  lastUploadedFile, frameBufferFile, spiffsBegun, storageIdleVars, h >>

\* EPD_Display, EPD_Update, EPD_PartUpdate: the image goes to the panel
Display_EPD_Display ==
  /\ InPath /\ CurrentStep = "EPD_Display"
  /\ pc' = AfterStep
  /\ UNCHANGED << rtcState, initialized, storageVars, storageIdleVars, h >>

\* EPD_DeepSleep()
Display_EPD_DeepSleep ==
  /\ InPath /\ CurrentStep = "EPD_DeepSleep"
  /\ epdAsleep' = TRUE
  /\ pc' = AfterStep
  /\ UNCHANGED << rtcState, initialized, sdCardAvailable, spiffsMounted, driftRateFile,
                  lastUploadedFile, frameBufferFile, spiffsBegun, storageIdleVars, h >>

\* DeepSleepManager_SaveFrameBuffer(ImageBW, kFrameBufferSize)
Display_SaveFrameBuffer ==
  /\ InPath /\ CurrentStep = "SaveFrameBuffer"
  /\ \E opened \in BOOLEAN, written \in {0, kFrameBufferSize \div 2, kFrameBufferSize},
        formatOk \in BOOLEAN :
       LET saved == DeepSleepManager_SaveFrameBuffer(CurrentStore, kFrameBufferSize,
                                                     opened, written, formatOk)
       IN  /\ rtcState' = [rtcState EXCEPT !.imageSize = saved.store.imageSize]
           /\ frameBufferFile' = saved.store.frame
           /\ driftRateFile' = saved.store.drift
           /\ lastUploadedFile' = saved.store.uploaded
           /\ spiffsBegun' = saved.store.begun
           /\ h' = [h EXCEPT
                      !.formats = IF saved.formatted THEN @ + 1 ELSE @,
                      !.lastRate = IF saved.formatted /\ formatOk
                                     THEN [@ EXCEPT !.spiffs = 0] ELSE @,
                      !.lastUpload = IF saved.formatted /\ formatOk
                                       THEN [@ EXCEPT !.spiffs = 0] ELSE @,
                      !.call = Call("SaveFrameBuffer", opened, written, saved.ret,
                                    saved.formatted, rtcState, saved.store)]
  /\ pc' = AfterStep
  /\ UNCHANGED << initialized, sdCardAvailable, spiffsMounted, epdAsleep,
                  storageIdleVars >>

\* DeepSleepManager_LoadFrameBuffer(ImageBW, kFrameBufferSize)
Display_LoadFrameBuffer ==
  /\ InPath /\ CurrentStep = "LoadFrameBuffer"
  /\ \E opened \in BOOLEAN, read \in {kFrameBufferSize \div 2, kFrameBufferSize} :
       h' = [h EXCEPT !.call =
               Call("LoadFrameBuffer", opened, read,
                    DeepSleepManager_LoadFrameBuffer(CurrentStore, kFrameBufferSize,
                                                     opened, read),
                    FALSE, rtcState, CurrentStore)]
  /\ pc' = AfterStep
  /\ UNCHANGED << rtcState, initialized, storageVars, storageIdleVars >>

\* The end of a recalibration in DeepSleepManager_MarkNtpSynced: the new
\* rate goes to the record and DeepSleepManager_SaveDriftRate copies it to
\* storage
Storage_Recalibrate ==
  /\ pc = Ready
  /\ h.calls < MaxCallsPerWake
  /\ \E clampedRate \in RateSamples, opened \in BOOLEAN :
       LET newRate == NewDriftRate(rtcState, clampedRate)
           after == StoreAfterSaveDriftRate(CurrentStore, newRate, opened)
           medium == ActiveMedium(CurrentStore)
           updated == [rtcState EXCEPT !.driftRateMsPerMin = newRate,
                                       !.driftRateCalibrated = TRUE]
       IN  /\ rtcState' = updated
           /\ driftRateFile' = after.drift
           /\ h' = [h EXCEPT
                      !.calls = @ + 1,
                      !.lastRate = IF medium # "none" /\ FileOpens(CurrentStore, opened)
                                     THEN [@ EXCEPT ![medium] = newRate] ELSE @,
                      !.call = Call("SaveDriftRate", opened, newRate, 0, FALSE, updated,
                                    after)]
  /\ UNCHANGED << pc, initialized, sdCardAvailable, spiffsMounted, lastUploadedFile,
                  mediaVars, storageIdleVars >>

\* DeepSleepManager_SaveLastUploadedTime(timestamp)
Storage_SaveLastUploadedTime ==
  /\ pc = Ready
  /\ h.calls < MaxCallsPerWake
  /\ \E timestamp \in UploadTimes, opened \in BOOLEAN :
       LET after == StoreAfterSaveLastUploadedTime(CurrentStore, timestamp, opened)
           medium == ActiveMedium(CurrentStore)
       IN  /\ lastUploadedFile' = after.uploaded
           /\ h' = [h EXCEPT
                      !.calls = @ + 1,
                      !.lastUpload = IF medium # "none" /\ FileOpens(CurrentStore, opened)
                                       THEN [@ EXCEPT ![medium] = timestamp] ELSE @,
                      !.call = Call("SaveLastUploadedTime", opened, timestamp, 0, FALSE,
                                    rtcState, after)]
  /\ UNCHANGED << rtcState, pc, initialized, sdCardAvailable, spiffsMounted,
                  driftRateFile, mediaVars, storageIdleVars >>

\* DeepSleepManager_LoadDriftRate() and DeepSleepManager_LoadLastUploadedTime()
Storage_LoadScalar ==
  /\ pc = Ready
  /\ h.calls < MaxCallsPerWake
  /\ \E opened \in BOOLEAN :
       \/ h' = [h EXCEPT !.calls = @ + 1,
                         !.call = Call("LoadDriftRate", opened, 0,
                                       StoredDriftRate(CurrentStore, opened),
                                       FALSE, rtcState, CurrentStore)]
       \/ h' = [h EXCEPT !.calls = @ + 1,
                         !.call = Call("LoadLastUploadedTime", opened, 0,
                                       StoredLastUploadedTime(CurrentStore, opened),
                                       FALSE, rtcState, CurrentStore)]
  /\ UNCHANGED << rtcState, pc, initialized, storageVars, storageIdleVars >>

\* The chip sleeps and wakes: the statics start over, the record, the files
\* and the display's power state stay
Storage_DeepSleepWake ==
  /\ pc = Ready
  /\ h.wakes < MaxStorageWakes
  /\ pc' = Booting
  /\ initialized' = FALSE
  /\ sdCardAvailable' = FALSE
  /\ spiffsMounted' = FALSE
  /\ spiffsBegun' = FALSE
  /\ h' = [h EXCEPT !.wakes = @ + 1, !.calls = 0, !.formats = 0, !.coldBoot = FALSE,
                    !.call = NoCall]
  /\ UNCHANGED << rtcState, driftRateFile, lastUploadedFile, frameBufferFile, epdAsleep,
                  storageIdleVars >>

\* Full power loss and power-on: the loader writes the initializers of
\* RTCState again; the files stay
Storage_PowerCycle ==
  /\ pc = Ready
  /\ h.wakes < MaxStorageWakes
  /\ pc' = Booting
  /\ rtcState' = RTCStateDefault
  /\ initialized' = FALSE
  /\ sdCardAvailable' = FALSE
  /\ spiffsMounted' = FALSE
  /\ spiffsBegun' = FALSE
  /\ epdAsleep' = FALSE
  /\ h' = [h EXCEPT !.wakes = @ + 1, !.calls = 0, !.formats = 0, !.coldBoot = TRUE,
                    !.call = NoCall]
  /\ UNCHANGED << driftRateFile, lastUploadedFile, frameBufferFile, storageIdleVars >>

NextStorage ==
  \/ Storage_Init
  \/ Display_Start
  \/ Display_EPD_FastMode1Init
  \/ Display_EPD_Display
  \/ Display_EPD_DeepSleep
  \/ Display_SaveFrameBuffer
  \/ Display_LoadFrameBuffer
  \/ Storage_Recalibrate
  \/ Storage_SaveLastUploadedTime
  \/ Storage_LoadScalar
  \/ Storage_DeepSleepWake
  \/ Storage_PowerCycle

SpecStorage == InitStorage /\ [][NextStorage]_vars


(***************************************************************************)
(* SpecFallback: the same calls on a device whose SD card mounted and on   *)
(* one that fell back to SPIFFS. The state variables are the device on     *)
(* SPIFFS; h.primary is the store of the device with the SD card, which    *)
(* starts with the same files and record and is given the same calls with  *)
(* the same open, write, read and format outcomes.                         *)
(***************************************************************************)
MaxFallbackCalls == 3

\* The files and imageSize a device starts the wake with
FallbackStartFiles ==
  { [frame |-> f, drift |-> d, uploaded |-> u, imageSize |-> i] :
      f \in {NoFile, kFrameBufferSize}, d \in {0, 17000}, u \in {0, 1767225600},
      i \in {0, kFrameBufferSize} }

\* A store holding the given files on its one mounted medium
StoreOn(medium, files) ==
  [ sd |-> medium = "sd", spiffs |-> medium = "spiffs", begun |-> medium = "spiffs",
    frame |-> [sd |-> IF medium = "sd" THEN files.frame ELSE NoFile,
               spiffs |-> IF medium = "spiffs" THEN files.frame ELSE NoFile],
    drift |-> [sd |-> IF medium = "sd" THEN files.drift ELSE 0,
               spiffs |-> IF medium = "spiffs" THEN files.drift ELSE 0],
    uploaded |-> [sd |-> IF medium = "sd" THEN files.uploaded ELSE 0,
                  spiffs |-> IF medium = "spiffs" THEN files.uploaded ELSE 0],
    imageSize |-> files.imageSize ]

fallbackIdleVars ==
  << clock, trueTime, uptimeUs, pc, initialized, sdCardAvailable, spiffsMounted,
     rtcTimeBeforeNtpSync, ntpSyncDurationMs, epdAsleep, timerWakeUs, taskVars >>

InitFallback ==
  \E files \in FallbackStartFiles :
    LET degraded == StoreOn("spiffs", files)
    IN  /\ rtcState = [RTCStateDefault EXCEPT !.bootCount = 1,
                                              !.imageSize = files.imageSize]
        /\ clock = Tv(HourStartSec, 0)
        /\ trueTime = clock
        /\ uptimeUs = 0
        /\ pc = "ready"
        /\ initialized = TRUE
        /\ sdCardAvailable = FALSE
        /\ spiffsMounted = TRUE
        /\ rtcTimeBeforeNtpSync = Tv(0, 0)
        /\ ntpSyncDurationMs = 0
        /\ driftRateFile = degraded.drift
        /\ lastUploadedFile = degraded.uploaded
        /\ frameBufferFile = degraded.frame
        /\ spiffsBegun = TRUE
        /\ epdAsleep = FALSE
        /\ timerWakeUs = 0
        /\ wifiPc = "none"
        /\ sensorPc = "none"
        /\ wifiTaskHandle = FALSE
        /\ sensorTaskHandle = FALSE
        /\ eventBits = {}
        /\ results = ParallelTaskResultsDefault
        /\ networkState = NetworkStateDefault
        /\ wifiParams = [needWifiSync |-> FALSE, measureDriftOnly |-> FALSE]
        /\ wl = WifiLocalsDefault
        /\ allDone = FALSE
        /\ h = [ calls |-> 0, shortWrites |-> 0, shortBefore |-> 0,
                 primary |-> StoreOn("sd", files),
                 name |-> "none", ret |-> FALSE, primaryRet |-> FALSE ]

\* The files of a store's mounted medium and its imageSize: what a caller
\* and the next wake find
Contents(store) ==
  [ frame |-> FileOn([store EXCEPT !.begun = TRUE], store.frame),
    drift |-> FileOn([store EXCEPT !.begun = TRUE], store.drift),
    uploaded |-> FileOn([store EXCEPT !.begun = TRUE], store.uploaded),
    imageSize |-> store.imageSize ]

\* DeepSleepManager_SaveFrameBuffer(ImageBW, kFrameBufferSize) on both devices
Fallback_SaveFrameBuffer ==
  /\ h.calls < MaxFallbackCalls
  /\ \E opened \in BOOLEAN, written \in {kFrameBufferSize \div 2, kFrameBufferSize},
        formatOk \in BOOLEAN :
       LET saved == DeepSleepManager_SaveFrameBuffer(CurrentStore, kFrameBufferSize,
                                                     opened, written, formatOk)
           primary == DeepSleepManager_SaveFrameBuffer(h.primary, kFrameBufferSize,
                                                       opened, written, formatOk)
       IN  /\ rtcState' = [rtcState EXCEPT !.imageSize = saved.store.imageSize]
           /\ frameBufferFile' = saved.store.frame
           /\ driftRateFile' = saved.store.drift
           /\ lastUploadedFile' = saved.store.uploaded
           /\ spiffsBegun' = saved.store.begun
           /\ h' = [h EXCEPT !.calls = @ + 1,
                             !.shortBefore = h.shortWrites,
                             !.shortWrites = IF opened /\ written # kFrameBufferSize
                                               THEN @ + 1 ELSE @,
                             !.primary = primary.store,
                             !.name = "SaveFrameBuffer",
                             !.ret = saved.ret, !.primaryRet = primary.ret]
  /\ UNCHANGED fallbackIdleVars

\* DeepSleepManager_LoadFrameBuffer(ImageBW, kFrameBufferSize) on both devices
Fallback_LoadFrameBuffer ==
  /\ h.calls < MaxFallbackCalls
  /\ \E opened \in BOOLEAN, read \in {kFrameBufferSize \div 2, kFrameBufferSize} :
       h' = [h EXCEPT !.calls = @ + 1, !.shortBefore = h.shortWrites,
                      !.name = "LoadFrameBuffer",
                      !.ret = DeepSleepManager_LoadFrameBuffer(
                                CurrentStore, kFrameBufferSize, opened, read),
                      !.primaryRet = DeepSleepManager_LoadFrameBuffer(
                                       h.primary, kFrameBufferSize, opened, read)]
  /\ UNCHANGED << rtcState, storageVars, clock, trueTime, uptimeUs, pc, initialized,
                  syncVars, timerWakeUs, taskVars >>

\* DeepSleepManager_SaveDriftRate(driftRate) on both devices
Fallback_SaveDriftRate ==
  /\ h.calls < MaxFallbackCalls
  /\ \E rate \in RateSamples, opened \in BOOLEAN :
       /\ driftRateFile' = StoreAfterSaveDriftRate(CurrentStore, rate, opened).drift
       /\ h' = [h EXCEPT !.calls = @ + 1, !.shortBefore = h.shortWrites,
                         !.primary = StoreAfterSaveDriftRate(@, rate, opened),
                         !.name = "SaveDriftRate", !.ret = FALSE, !.primaryRet = FALSE]
  /\ UNCHANGED << rtcState, lastUploadedFile, mediaVars, fallbackIdleVars >>

\* DeepSleepManager_LoadDriftRate() on both devices
Fallback_LoadDriftRate ==
  /\ h.calls < MaxFallbackCalls
  /\ \E opened \in BOOLEAN :
       h' = [h EXCEPT !.calls = @ + 1, !.shortBefore = h.shortWrites,
                      !.name = "LoadDriftRate",
                      !.ret = StoredDriftRate(CurrentStore, opened),
                      !.primaryRet = StoredDriftRate(h.primary, opened)]
  /\ UNCHANGED << rtcState, storageVars, clock, trueTime, uptimeUs, pc, initialized,
                  syncVars, timerWakeUs, taskVars >>

\* DeepSleepManager_SaveLastUploadedTime(timestamp) on both devices
Fallback_SaveLastUploadedTime ==
  /\ h.calls < MaxFallbackCalls
  /\ \E timestamp \in UploadTimes, opened \in BOOLEAN :
       /\ lastUploadedFile' =
            StoreAfterSaveLastUploadedTime(CurrentStore, timestamp, opened).uploaded
       /\ h' = [h EXCEPT !.calls = @ + 1, !.shortBefore = h.shortWrites,
                         !.primary = StoreAfterSaveLastUploadedTime(@, timestamp, opened),
                         !.name = "SaveLastUploadedTime", !.ret = FALSE,
                         !.primaryRet = FALSE]
  /\ UNCHANGED << rtcState, driftRateFile, mediaVars, fallbackIdleVars >>

\* DeepSleepManager_LoadLastUploadedTime() on both devices
Fallback_LoadLastUploadedTime ==
  /\ h.calls < MaxFallbackCalls
  /\ \E opened \in BOOLEAN :
       h' = [h EXCEPT !.calls = @ + 1, !.shortBefore = h.shortWrites,
                      !.name = "LoadLastUploadedTime",
                      !.ret = StoredLastUploadedTime(CurrentStore, opened),
                      !.primaryRet = StoredLastUploadedTime(h.primary, opened)]
  /\ UNCHANGED << rtcState, storageVars, clock, trueTime, uptimeUs, pc, initialized,
                  syncVars, timerWakeUs, taskVars >>

NextFallback ==
  \/ Fallback_SaveFrameBuffer
  \/ Fallback_LoadFrameBuffer
  \/ Fallback_SaveDriftRate
  \/ Fallback_LoadDriftRate
  \/ Fallback_SaveLastUploadedTime
  \/ Fallback_LoadLastUploadedTime

SpecFallback == InitFallback /\ [][NextFallback]_vars


(***************************************************************************)
(* SpecMark: DeepSleepManager_MarkNtpSynced applied once to a record, a    *)
(* clock before the sync and a sync duration drawn from small sets. The    *)
(* clock holds the time the sync has just set.                             *)
(***************************************************************************)
\* The time the sync set
MarkNtpTime == Tv(HourStartSec + 3600, 250000)

\* rtcState.lastNtpSyncTime before the call: none, the last time that does
\* not count as valid, and 59 s, 60 s and an hour before the sync
MarkPreviousSyncTimes ==
  {0, kMinValidTime, MarkNtpTime.sec - 59, MarkNtpTime.sec - 60, MarkNtpTime.sec - 3600}

\* How far the clock before the sync was behind the time the sync set, in ms
MarkClockBehindMs == {-500, 0, 100, 2000, 20000}

\* rtcTimeBeforeNtpSync: a clock never set, or one behind the sync's time
MarkClocksBefore ==
  { Tv(1, 300217) } \cup { TvAddUs(MarkNtpTime, -(ms * 1000)) : ms \in MarkClockBehindMs }

MarkCompensationsMs == {0, 170, 10000}
MarkOldRates == {kDefaultDriftRateMsPerMin, 28125}
MarkSyncDurationsMs == {0, 40}

markIdleVars ==
  << clock, trueTime, uptimeUs, initialized, sdCardAvailable, spiffsMounted,
     rtcTimeBeforeNtpSync, lastUploadedFile, mediaVars, timerWakeUs, taskVars >>

InitMark ==
  /\ \E previous \in MarkPreviousSyncTimes, comp \in MarkCompensationsMs,
        rate \in MarkOldRates, calibrated \in BOOLEAN :
       rtcState = [RTCStateDefault EXCEPT !.bootCount = 61,
                                          !.lastNtpSyncBootCount = 1,
                                          !.lastNtpSyncTime = previous,
                                          !.cumulativeCompensationMs = comp,
                                          !.driftRateMsPerMin = rate,
                                          !.driftRateCalibrated = calibrated]
  /\ clock = MarkNtpTime
  /\ trueTime = clock
  /\ uptimeUs = 0
  /\ pc = "mark"
  /\ initialized = TRUE
  /\ sdCardAvailable = TRUE
  /\ spiffsMounted = FALSE
  /\ rtcTimeBeforeNtpSync \in MarkClocksBefore
  /\ ntpSyncDurationMs \in MarkSyncDurationsMs
  /\ driftRateFile = [sd |-> 0, spiffs |-> 0]
  /\ lastUploadedFile = [sd |-> 0, spiffs |-> 0]
  /\ frameBufferFile = [sd |-> NoFile, spiffs |-> NoFile]
  /\ spiffsBegun = FALSE
  /\ epdAsleep = FALSE
  /\ timerWakeUs = 0
  /\ wifiPc = "none"
  /\ sensorPc = "none"
  /\ wifiTaskHandle = FALSE
  /\ sensorTaskHandle = FALSE
  /\ eventBits = {}
  /\ results = ParallelTaskResultsDefault
  /\ networkState = NetworkStateDefault
  /\ wifiParams = [needWifiSync |-> TRUE, measureDriftOnly |-> FALSE]
  /\ wl = WifiLocalsDefault
  /\ allDone = FALSE
  /\ h = [ marked |-> FALSE, before |-> RTCStateDefault, syncDurationMs |-> 0 ]

\* DeepSleepManager_MarkNtpSynced(), from its first line to its last
Mark_Whole ==
  /\ pc = "mark"
  /\ LET marked == MarkedRecord(rtcState, clock, rtcTimeBeforeNtpSync, ntpSyncDurationMs)
         saves == /\ rtcTimeBeforeNtpSync.sec > kMinValidTime
                  /\ RateUpdateDue(clock.sec, rtcState.lastNtpSyncTime)
     IN  /\ rtcState' = marked
         /\ \E opened \in BOOLEAN :
              driftRateFile' =
                IF saves
                  THEN DeepSleepManager_SaveDriftRate(driftRateFile,
                                                      marked.driftRateMsPerMin, opened)
                  ELSE driftRateFile
  /\ ntpSyncDurationMs' = 0
  /\ pc' = "marked"
  /\ h' = [ marked |-> TRUE, before |-> rtcState, syncDurationMs |-> ntpSyncDurationMs ]
  /\ UNCHANGED markIdleVars

NextMark == Mark_Whole

SpecMark == InitMark /\ [][NextMark]_vars


(***************************************************************************)
(* SpecSync: NetworkManager_SyncNtp and the DeepSleepManager_MarkNtpSynced *)
(* that follows it in wifiNtpTask, with the time every step takes. The     *)
(* local clock runs at the true rate during the sync; it starts with an    *)
(* error against the servers' time. The servers stamp the true time and    *)
(* the packet takes the same time in both directions. A response that is   *)
(* not there when the wait of its attempt ends is lost or still on its     *)
(* way; one that is still on its way can arrive at local port 123 while a  *)
(* later attempt of the same sync waits there.                             *)
(***************************************************************************)
\* servers' time minus local clock when NetworkManager_SyncNtp is entered
SyncClockErrorsUs == {-300000, 0, 170000, 2000000}

\* The local clock when NetworkManager_SyncNtp is entered: a clock with one
\* of the errors, or a clock that was never set
SyncClocksAtEntry ==
  { TvAddUs(Tv(TrueBootSec, 600000), -e) : e \in SyncClockErrorsUs } \cup { Tv(1, 300217) }

\* Time of the log line between gettimeofday in
\* DeepSleepManager_SaveRtcTimeBeforeSync and startTime = millis()
SyncLogUs == {0, 400}

\* One-way network delay of an answered query
SyncOneWayDelayUs == {0, 20000}

\* Time between t4 of tryNtpServer and syncTime / tvNow of NetworkManager_SyncNtp
SyncAfterReceiveUs == {0, 3000}

\* while (packetSize == 0 && millis() - startWait < 2000)
kNtpWaitMs == 2000

\* delay(10) before the first udp.parsePacket() of the wait
kNtpPollMs == 10

\* delay(100) before the next server is tried
kNtpFallbackDelayMs == 100

\* delay(1000) before NetworkManager_SyncNtp returns false
kNtpFailDelayMs == 1000

\* delay(50) before NetworkManager_SyncNtp returns true
kNtpOkDelayMs == 50

\* millis()
Millis(up) == up \div 1000

\* The clocks d microseconds later
Elapse(d) ==
  /\ clock' = TvAddUs(clock, d)
  /\ trueTime' = TvAddUs(trueTime, d)
  /\ uptimeUs' = uptimeUs + d

syncIdleVars ==
  << initialized, sdCardAvailable, spiffsMounted, lastUploadedFile, mediaVars,
     timerWakeUs, wifiPc, sensorPc, wifiTaskHandle, sensorTaskHandle, eventBits,
     results, wifiParams, allDone >>

InitSync ==
  /\ rtcState = [RTCStateDefault EXCEPT !.bootCount = 61,
                                        !.lastNtpSyncBootCount = 1,
                                        !.lastNtpSyncTime = TrueBootSec - 3600,
                                        !.cumulativeCompensationMs = 10000]
  /\ clock \in SyncClocksAtEntry
  /\ trueTime = Tv(TrueBootSec, 600000)
  /\ uptimeUs = 1234567
  /\ pc = "sync"
  /\ initialized = TRUE
  /\ sdCardAvailable = TRUE
  /\ spiffsMounted = FALSE
  /\ rtcTimeBeforeNtpSync = Tv(0, 0)
  /\ ntpSyncDurationMs = 0
  /\ driftRateFile = [sd |-> 0, spiffs |-> 0]
  /\ lastUploadedFile = [sd |-> 0, spiffs |-> 0]
  /\ frameBufferFile = [sd |-> NoFile, spiffs |-> NoFile]
  /\ spiffsBegun = FALSE
  /\ epdAsleep = FALSE
  /\ timerWakeUs = 0
  /\ wifiPc = "none"
  /\ sensorPc = "none"
  /\ wifiTaskHandle = FALSE
  /\ sensorTaskHandle = FALSE
  /\ eventBits = {}
  /\ results = ParallelTaskResultsDefault
  /\ networkState = NetworkStateDefault
  /\ wifiParams = [needWifiSync |-> TRUE, measureDriftOnly |-> FALSE]
  /\ wl = WifiLocalsDefault
  /\ allDone = FALSE
  /\ h = [ errorUs |-> Tv(0, 0),      \* servers' time minus clock at the capture
           t4 |-> Tv(0, 0),           \* the clock when the response arrived
           clockAtCommit |-> Tv(0, 0),\* tvNow of NetworkManager_SyncNtp
           committed |-> Tv(0, 0),    \* the value given to settimeofday
           trueAtCommit |-> Tv(0, 0), \* the servers' time at settimeofday
           uncountedUs |-> 0,         \* time passed outside startTime .. syncTime
           onTheWay |-> {},           \* responses to requests whose wait has ended
           askedServer |-> 0,         \* the server the accepting attempt asked
           answeredBy |-> 0 ]         \* the server whose response it accepted

\* NetworkManager_SyncNtp up to startTime = millis()
Sync_Begin ==
  /\ pc = "sync"
  /\ rtcTimeBeforeNtpSync' = clock
  /\ \E g \in SyncLogUs :
       /\ Elapse(g)
       /\ wl' = [wl EXCEPT !.startTimeUs = uptimeUs + g, !.serverIdx = 0]
       /\ h' = [h EXCEPT !.errorUs = UsSub(trueTime, clock), !.uncountedUs = g]
  /\ pc' = "try"
  /\ UNCHANGED << rtcState, ntpSyncDurationMs, driftRateFile, networkState, syncIdleVars >>

\* tryNtpServer(NTP_SERVERS[i]) returns false after waiting for a response,
\* and the loop goes on after delay(100) unless this was the last server
Sync_TryFails ==
  /\ pc = "try"
  /\ wl.serverIdx < NTP_SERVER_COUNT
  /\ Elapse(1000 * (kNtpWaitMs +
                    IF wl.serverIdx < NTP_SERVER_COUNT - 1 THEN kNtpFallbackDelayMs ELSE 0))
  /\ wl' = [wl EXCEPT !.serverIdx = NextServer(@)]
  /\ \E late \in BOOLEAN, w \in SyncOneWayDelayUs :
       h' = IF late
              THEN [h EXCEPT !.onTheWay = @ \cup { [server |-> wl.serverIdx,
                                                     stamped |-> TvAddUs(trueTime, w)] }]
              ELSE h
  /\ UNCHANGED << rtcState, pc, rtcTimeBeforeNtpSync, ntpSyncDurationMs, driftRateFile,
                  networkState, syncIdleVars >>

\* tryNtpServer(NTP_SERVERS[i]) returns true
Sync_TryAnswers ==
  /\ pc = "try"
  /\ wl.serverIdx < NTP_SERVER_COUNT
  /\ \E w \in SyncOneWayDelayUs :
       \E st \in ServerStamps(TvAddUs(trueTime, w)) :
         LET t1 == clock
             t2 == ntpTimestampToUnixUs(st.sec, st.frac)
             t4 == TvAddUs(clock, 2 * w)
         IN  /\ wl' = [wl EXCEPT
                         !.offsetUs = NtpOffsetUs(t1, t2, t2, t4),
                         !.rttUs = NtpRttUs(t1, t2, t2, t4),
                         !.correctedUnixUsAtReceive = NtpCorrectedAtReceive(t1, t2, t2, t4)]
             /\ Elapse(2 * w)
             /\ h' = [h EXCEPT !.t4 = t4, !.askedServer = wl.serverIdx,
                               !.answeredBy = wl.serverIdx]
  /\ pc' = "answered"
  /\ UNCHANGED << rtcState, rtcTimeBeforeNtpSync, ntpSyncDurationMs, driftRateFile,
                  networkState, syncIdleVars >>

\* tryNtpServer(NTP_SERVERS[i]) returns true on a datagram that was on its
\* way from a server tried before: udp.begin(123) binds the port of every
\* attempt, the first udp.parsePacket() finds the datagram, and t2 and t3
\* are read from it without a look at its sender or its originate timestamp
Sync_TryAcceptsLate ==
  /\ pc = "try"
  /\ wl.serverIdx < NTP_SERVER_COUNT
  /\ \E datagram \in h.onTheWay :
       \E st \in ServerStamps(datagram.stamped) :
         LET t1 == clock
             t2 == ntpTimestampToUnixUs(st.sec, st.frac)
             t4 == TvAddUs(clock, 1000 * kNtpPollMs)
         IN  /\ wl' = [wl EXCEPT
                         !.offsetUs = NtpOffsetUs(t1, t2, t2, t4),
                         !.rttUs = NtpRttUs(t1, t2, t2, t4),
                         !.correctedUnixUsAtReceive = NtpCorrectedAtReceive(t1, t2, t2, t4)]
             /\ Elapse(1000 * kNtpPollMs)
             /\ h' = [h EXCEPT !.t4 = t4, !.askedServer = wl.serverIdx,
                               !.answeredBy = datagram.server,
                               !.onTheWay = @ \ {datagram}]
  /\ pc' = "answered"
  /\ UNCHANGED << rtcState, rtcTimeBeforeNtpSync, ntpSyncDurationMs, driftRateFile,
                  networkState, syncIdleVars >>

\* NetworkManager_SyncNtp after the loop found no server: delay(1000),
\* return false; wifiNtpTask does not call DeepSleepManager_MarkNtpSynced
Sync_Fail ==
  /\ pc = "try"
  /\ wl.serverIdx = NTP_SERVER_COUNT
  /\ Elapse(1000 * kNtpFailDelayMs)
  /\ networkState' = [networkState EXCEPT !.ntpSynced = FALSE, !.ntpSyncTime = 0]
  /\ pc' = "failed"
  /\ UNCHANGED << rtcState, rtcTimeBeforeNtpSync, ntpSyncDurationMs, driftRateFile, wl, h,
                  syncIdleVars >>

\* NetworkManager_SyncNtp from syncTime = millis() - startTime to
\* DeepSleepManager_SaveNtpSyncDuration(syncTime)
Sync_Commit ==
  /\ pc = "answered"
  /\ \E a \in SyncAfterReceiveUs :
       LET syncTime == Millis(uptimeUs + a) - Millis(wl.startTimeUs)
           tvNow == TvAddUs(clock, a)
           tv == CorrectedNow(wl.correctedUnixUsAtReceive, wl.offsetUs, tvNow)
       IN  /\ clock' = tv
           /\ trueTime' = TvAddUs(trueTime, a)
           /\ uptimeUs' = uptimeUs + a
           /\ ntpSyncDurationMs' = syncTime
           /\ networkState' = [networkState EXCEPT !.ntpSynced = TRUE,
                                                   !.ntpSyncTime = syncTime]
           /\ h' = [h EXCEPT !.clockAtCommit = tvNow, !.committed = tv,
                             !.trueAtCommit = TvAddUs(trueTime, a)]
  /\ pc' = "committed"
  /\ UNCHANGED << rtcState, rtcTimeBeforeNtpSync, driftRateFile, wl, syncIdleVars >>

\* NetworkManager_SyncNtp from updateStatus("NTP OK!") to return true
Sync_Return ==
  /\ pc = "committed"
  /\ Elapse(1000 * kNtpOkDelayMs)
  /\ h' = [h EXCEPT !.uncountedUs = @ + 1000 * kNtpOkDelayMs]
  /\ pc' = "mark"
  /\ UNCHANGED << rtcState, rtcTimeBeforeNtpSync, ntpSyncDurationMs, driftRateFile, wl,
                  networkState, syncIdleVars >>

\* DeepSleepManager_MarkNtpSynced(), called by wifiNtpTask when
\* NetworkManager_SyncNtp returned true
Sync_Mark ==
  /\ pc = "mark"
  /\ LET marked == MarkedRecord(rtcState, clock, rtcTimeBeforeNtpSync, ntpSyncDurationMs)
         saves == /\ rtcTimeBeforeNtpSync.sec > kMinValidTime
                  /\ RateUpdateDue(clock.sec, rtcState.lastNtpSyncTime)
     IN  /\ rtcState' = marked
         /\ \E opened \in BOOLEAN :
              driftRateFile' =
                IF saves
                  THEN DeepSleepManager_SaveDriftRate(driftRateFile,
                                                      marked.driftRateMsPerMin, opened)
                  ELSE driftRateFile
  /\ pc' = "marked"
  /\ UNCHANGED << timeVars, rtcTimeBeforeNtpSync, ntpSyncDurationMs, wl, networkState, h,
                  syncIdleVars >>

NextSync ==
  \/ Sync_Begin
  \/ Sync_TryFails
  \/ Sync_TryAnswers
  \/ Sync_TryAcceptsLate
  \/ Sync_Fail
  \/ Sync_Commit
  \/ Sync_Return
  \/ Sync_Mark

SpecSync == InitSync /\ [][NextSync]_vars


(***************************************************************************)
(* SpecEnter: DeepSleepManager_EnterDeepSleep step by step, with the time  *)
(* each step takes, up to the moment the wake timer fires. trueTime is the *)
(* wall clock; the system clock agrees with it when the function is        *)
(* entered and runs at its rate until the chip powers down.                *)
(***************************************************************************)
\* Seconds of the minute at which the function is entered
EnterSeconds == {0, 29, 59}

\* Time WiFi.disconnect(true), WiFi.mode(WIFI_OFF), btStop(), SD.end() and
\* DeepSleepManager_HoldEPDPins() take together
EnterShutdownUs == {0, 25000}

\* delay(100) before esp_deep_sleep_start()
kEnterDelayMs == 100

enterIdleVars ==
  << initialized, spiffsMounted, rtcTimeBeforeNtpSync, ntpSyncDurationMs, driftRateFile,
     lastUploadedFile, mediaVars, taskVars >>

InitEnter ==
  /\ \E p \in ProcessingEstimatesMs :
       rtcState = [RTCStateDefault EXCEPT !.magic = TRUE, !.bootCount = 1,
                                          !.lastNtpSyncBootCount = 1,
                                          !.estimatedProcessingTime = p]
  /\ \/ \E s \in EnterSeconds, m \in SleepMillis, u \in SleepSubMillisUs :
          clock = Tv(HourStartSec + 23 * 60 + s, m * 1000 + u)
     \/ clock \in UnsetClocks
  /\ trueTime = clock
  /\ uptimeUs = 4200000
  /\ pc = "enter"
  /\ initialized = TRUE
  /\ sdCardAvailable \in BOOLEAN
  /\ spiffsMounted = FALSE
  /\ rtcTimeBeforeNtpSync = Tv(0, 0)
  /\ ntpSyncDurationMs = 0
  /\ driftRateFile = [sd |-> 0, spiffs |-> 0]
  /\ lastUploadedFile = [sd |-> 0, spiffs |-> 0]
  /\ frameBufferFile = [sd |-> NoFile, spiffs |-> NoFile]
  /\ spiffsBegun = FALSE
  /\ epdAsleep = TRUE
  /\ timerWakeUs = 0
  /\ wifiPc = "none"
  /\ sensorPc = "none"
  /\ wifiTaskHandle = FALSE
  /\ sensorTaskHandle = FALSE
  /\ eventBits = {}
  /\ results = ParallelTaskResultsDefault
  /\ networkState = NetworkStateDefault
  /\ wifiParams = [needWifiSync |-> FALSE, measureDriftOnly |-> FALSE]
  /\ wl = WifiLocalsDefault
  /\ allDone = TRUE
  /\ h = [ sleepStart |-> Tv(0, 0),   \* the wall clock at esp_deep_sleep_start()
           timerFired |-> Tv(0, 0),   \* the wall clock when the wake timer fired
           stepsAfterSave |-> {} ]    \* steps run after the clock was read

\* From sleepDuration = DeepSleepManager_CalculateSleepDuration() to
\* esp_sleep_enable_ext0_wakeup(): the clock is read, the record gets the
\* time and the duration, the wake sources are armed
Enter_SaveTime ==
  /\ pc = "enter"
  /\ LET sleepDuration == DeepSleepManager_CalculateSleepDuration(clock, rtcState)
     IN  /\ rtcState' = [rtcState EXCEPT !.savedTime = clock.sec,
                                         !.savedTimeUs = clock.usec,
                                         !.sleepDurationUs = sleepDuration]
         /\ timerWakeUs' = sleepDuration
  /\ pc' = "saved"
  /\ UNCHANGED << timeVars, sdCardAvailable, h, enterIdleVars >>

\* WiFi.disconnect(true), WiFi.mode(WIFI_OFF), btStop(), SD.end() when the
\* card is in use, DeepSleepManager_HoldEPDPins()
Enter_PowerDown ==
  /\ pc = "saved"
  /\ \E d \in EnterShutdownUs : Elapse(d)
  /\ h' = [h EXCEPT !.stepsAfterSave =
             @ \cup {"radio off", "pin hold"} \cup
               (IF sdCardAvailable THEN {"storage unmount"} ELSE {})]
  /\ pc' = "down"
  /\ UNCHANGED << rtcState, timerWakeUs, sdCardAvailable, enterIdleVars >>

\* Serial.flush(); delay(100)
Enter_FlushDelay ==
  /\ pc = "down"
  /\ Elapse(1000 * kEnterDelayMs)
  /\ h' = [h EXCEPT !.stepsAfterSave = @ \cup {"delay"}]
  /\ pc' = "flushed"
  /\ UNCHANGED << rtcState, timerWakeUs, sdCardAvailable, enterIdleVars >>

\* esp_deep_sleep_start(): the timer armed by esp_sleep_enable_timer_wakeup
\* counts from here
Enter_SleepStart ==
  /\ pc = "flushed"
  /\ h' = [h EXCEPT !.sleepStart = trueTime]
  /\ pc' = "asleep"
  /\ UNCHANGED << rtcState, timeVars, timerWakeUs, sdCardAvailable, enterIdleVars >>

\* The wake timer fires timerWakeUs after the sleep began
Enter_TimerFires ==
  /\ pc = "asleep"
  /\ trueTime' = TvAddUs(trueTime, timerWakeUs)
  /\ h' = [h EXCEPT !.timerFired = TvAddUs(trueTime, timerWakeUs)]
  /\ pc' = "fired"
  /\ UNCHANGED << rtcState, clock, uptimeUs, timerWakeUs, sdCardAvailable, enterIdleVars >>

NextEnter ==
  \/ Enter_SaveTime
  \/ Enter_PowerDown
  \/ Enter_FlushDelay
  \/ Enter_SleepStart
  \/ Enter_TimerFires

SpecEnter == InitEnter /\ [][NextEnter]_vars


(***************************************************************************)
(* SpecFrame: the frame buffer file over a few wakes. Every boot mounts    *)
(* the SD card, SPIFFS or nothing; saves may fail at the open or at the    *)
(* write. The history keeps, for the file on each medium, which save wrote *)
(* the bytes it holds (saves are numbered from 1, 0 = no file).            *)
(***************************************************************************)
MaxFrameWakes == 3
MaxFrameSaves == 2

frameIdleVars ==
  << clock, trueTime, uptimeUs, rtcTimeBeforeNtpSync, ntpSyncDurationMs, driftRateFile,
     lastUploadedFile, epdAsleep, timerWakeUs, taskVars >>

NotLoaded == [done |-> FALSE, ok |-> FALSE, image |-> 0]

InitFrame ==
  /\ rtcState = [RTCStateDefault EXCEPT !.magic = TRUE]
  /\ clock = Tv(HourStartSec, 0)
  /\ trueTime = clock
  /\ uptimeUs = 0
  /\ pc = "boot"
  /\ initialized = FALSE
  /\ sdCardAvailable = FALSE
  /\ spiffsMounted = FALSE
  /\ rtcTimeBeforeNtpSync = Tv(0, 0)
  /\ ntpSyncDurationMs = 0
  /\ driftRateFile = [sd |-> 0, spiffs |-> 0]
  /\ lastUploadedFile = [sd |-> 0, spiffs |-> 0]
  /\ frameBufferFile = [sd |-> NoFile, spiffs |-> NoFile]
  /\ spiffsBegun = FALSE
  /\ epdAsleep = FALSE
  /\ timerWakeUs = 0
  /\ wifiPc = "none"
  /\ sensorPc = "none"
  /\ wifiTaskHandle = FALSE
  /\ sensorTaskHandle = FALSE
  /\ eventBits = {}
  /\ results = ParallelTaskResultsDefault
  /\ networkState = NetworkStateDefault
  /\ wifiParams = [needWifiSync |-> FALSE, measureDriftOnly |-> FALSE]
  /\ wl = WifiLocalsDefault
  /\ allDone = FALSE
  /\ h = [ wakes |-> 1,
           saves |-> 0,                        \* calls of SaveFrameBuffer so far
           image |-> [sd |-> 0, spiffs |-> 0], \* the save whose bytes each file holds
           lastGood |-> 0,                     \* the last save that returned true
           loaded |-> NotLoaded ]              \* the last call of LoadFrameBuffer

\* DeepSleepManager_Init, the mount: SD.begin, and SPIFFS.begin(true) when
\* the card did not mount
Frame_Init ==
  /\ pc = "boot"
  /\ \E sdBegins \in BOOLEAN, spiffsBegins \in BOOLEAN :
       LET media == MountedMedia(sdBegins, spiffsBegins)
       IN  /\ sdCardAvailable' = media.sd
           /\ spiffsMounted' = media.spiffs
           /\ spiffsBegun' = media.spiffs
  /\ initialized' = TRUE
  /\ pc' = "ready"
  /\ h' = [h EXCEPT !.loaded = NotLoaded]
  /\ UNCHANGED << rtcState, frameBufferFile, frameIdleVars >>

\* DeepSleepManager_SaveFrameBuffer(ImageBW, kFrameBufferSize) with a new image
Frame_Save ==
  /\ pc = "ready"
  /\ h.saves < MaxFrameSaves
  /\ \E opened \in BOOLEAN, written \in {kFrameBufferSize \div 2, kFrameBufferSize},
        formatOk \in BOOLEAN :
       LET saved == DeepSleepManager_SaveFrameBuffer(CurrentStore, kFrameBufferSize,
                                                     opened, written, formatOk)
           medium == ActiveMedium(CurrentStore)
           wrote == medium # "none" /\ FileOpens(CurrentStore, opened)
           heldBy(m) == IF saved.store.frame[m] = NoFile THEN 0
                        ELSE IF wrote /\ m = medium THEN h.saves + 1
                        ELSE h.image[m]
       IN  /\ rtcState' = [rtcState EXCEPT !.imageSize = saved.store.imageSize]
           /\ frameBufferFile' = saved.store.frame
           /\ spiffsBegun' = saved.store.begun
           /\ h' = [h EXCEPT !.saves = @ + 1,
                             !.image = [sd |-> heldBy("sd"), spiffs |-> heldBy("spiffs")],
                             !.lastGood = IF saved.ret THEN h.saves + 1 ELSE @,
                             !.loaded = NotLoaded]
  /\ UNCHANGED << pc, initialized, sdCardAvailable, spiffsMounted, frameIdleVars >>

\* DeepSleepManager_LoadFrameBuffer(ImageBW, kFrameBufferSize): the bytes it
\* hands back are those of the file on the active medium
Frame_Load ==
  /\ pc = "ready"
  /\ \E opened \in BOOLEAN, read \in {kFrameBufferSize \div 2, kFrameBufferSize} :
       LET ok == DeepSleepManager_LoadFrameBuffer(CurrentStore, kFrameBufferSize,
                                                  opened, read)
           medium == ActiveMedium(CurrentStore)
       IN  h' = [h EXCEPT !.loaded = [done |-> TRUE, ok |-> ok,
                                      image |-> IF ok THEN h.image[medium] ELSE 0]]
  /\ UNCHANGED << rtcState, pc, initialized, sdCardAvailable, spiffsMounted,
                  frameBufferFile, spiffsBegun, frameIdleVars >>

\* The chip sleeps and wakes: the statics start over, the record and the
\* files stay
Frame_DeepSleepWake ==
  /\ pc = "ready"
  /\ h.wakes < MaxFrameWakes
  /\ pc' = "boot"
  /\ initialized' = FALSE
  /\ sdCardAvailable' = FALSE
  /\ spiffsMounted' = FALSE
  /\ spiffsBegun' = FALSE
  /\ h' = [h EXCEPT !.wakes = @ + 1, !.loaded = NotLoaded]
  /\ UNCHANGED << rtcState, frameBufferFile, frameIdleVars >>

NextFrame ==
  \/ Frame_Init
  \/ Frame_Save
  \/ Frame_Load
  \/ Frame_DeepSleepWake

SpecFrame == InitFrame /\ [][NextFrame]_vars


(***************************************************************************)
(* SpecMinute: the minute on the screen. display_manager.cpp performUpdate *)
(* and DisplayManager_UpdateTimeOnly read the clock, decide whether to     *)
(* redraw, draw the time area of ImageBW and record the minute they drew.  *)
(* The history keeps ImageBW (what its time area shows, and whether its    *)
(* sensor area was drawn by this wake) and the last call of an update with *)
(* the record, the clock and ImageBW before and after it.                  *)
(***************************************************************************)
MaxMinuteWakes == 2
MinuteSpanSec == 120

MinuteNtpTimes == {HourStartSec, HourStartSec + 40}
MinuteStepUs == 20 * US
MinuteSleepUs == {20 * US, 60 * US}

\* Seconds the clock has run past where it started, set or not set
MinuteElapsedSec(tv) == IF getLocalTime(tv) THEN tv.sec - HourStartSec ELSE tv.sec

minuteIdleVars ==
  << trueTime, sdCardAvailable, spiffsMounted, rtcTimeBeforeNtpSync, ntpSyncDurationMs,
     driftRateFile, lastUploadedFile, mediaVars, timerWakeUs, taskVars >>

BlankImage == [text |-> "none", minute |-> 0, sensors |-> FALSE]
NoUpdate ==
  [ name |-> "none", forceUpdate |-> FALSE, ret |-> FALSE,
    before |-> [st |-> RTCStateDefault, clock |-> Tv(0, 0), image |-> BlankImage],
    after |-> [st |-> RTCStateDefault, clock |-> Tv(0, 0), image |-> BlankImage] ]

\* if (!forceUpdate && currentMinute == lastDisplayedMinute) return false;
\* inside if (timeAvailable), with an update that waits for the minute to
\* move past the one on the screen
SkipUpdate_UntilLaterMinute(timeAvailable, forceUpdate, currentMinute, lastDisplayedMinute) ==
  timeAvailable /\ ~forceUpdate /\ currentMinute <= lastDisplayedMinute

\* if (!forceUpdate && currentMinute == lastDisplayedMinute) return false;
\* inside if (timeAvailable)
SkipUpdate(timeAvailable, forceUpdate, currentMinute, lastDisplayedMinute) ==
  timeAvailable /\ ~forceUpdate /\ currentMinute = lastDisplayedMinute

\* performUpdate (whole = TRUE: Paint_Clear, time, status and sensor values)
\* and DisplayManager_UpdateTimeOnly (whole = FALSE: the time area only):
\* the return value, the record, the clock and ImageBW after the call
DisplayUpdate(st, tv, up, forceUpdate, image, whole) ==
  LET now == IF getLocalTime(tv) THEN tv ELSE NetworkManager_SetupTimeFromRTC(st, tv, up)
      timeAvailable == getLocalTime(now)
      currentMinute == tm_min(now)
  IN  IF SkipUpdate(timeAvailable, forceUpdate, currentMinute, st.lastDisplayedMinute)
        THEN [ret |-> FALSE, st |-> st, clock |-> now, image |-> image]
        ELSE [ret |-> TRUE,
              st |-> IF timeAvailable
                       THEN [st EXCEPT !.lastDisplayedMinute = currentMinute]
                       ELSE st,
              clock |-> now,
              image |-> [text |-> IF timeAvailable THEN "time" ELSE "No Time",
                         minute |-> IF timeAvailable THEN currentMinute ELSE 0,
                         sensors |-> whole \/ image.sensors]]

InitMinute ==
  /\ rtcState = RTCStateDefault
  /\ clock = Tv(0, 0)
  /\ trueTime = Tv(HourStartSec, 0)
  /\ uptimeUs = 0
  /\ pc = "boot"
  /\ initialized = FALSE
  /\ sdCardAvailable = FALSE
  /\ spiffsMounted = FALSE
  /\ rtcTimeBeforeNtpSync = Tv(0, 0)
  /\ ntpSyncDurationMs = 0
  /\ driftRateFile = [sd |-> 0, spiffs |-> 0]
  /\ lastUploadedFile = [sd |-> 0, spiffs |-> 0]
  /\ frameBufferFile = [sd |-> NoFile, spiffs |-> NoFile]
  /\ spiffsBegun = FALSE
  /\ epdAsleep = FALSE
  /\ timerWakeUs = 0
  /\ wifiPc = "none"
  /\ sensorPc = "none"
  /\ wifiTaskHandle = FALSE
  /\ sensorTaskHandle = FALSE
  /\ eventBits = {}
  /\ results = ParallelTaskResultsDefault
  /\ networkState = NetworkStateDefault
  /\ wifiParams = [needWifiSync |-> FALSE, measureDriftOnly |-> FALSE]
  /\ wl = WifiLocalsDefault
  /\ allDone = FALSE
  /\ h = [ wakes |-> 1,
           image |-> BlankImage,    \* ImageBW
           call |-> NoUpdate ]      \* the last display update of this wake

\* DeepSleepManager_Init, the record: reset when the marker is not valid,
\* else the clock restored from the saved time
Minute_Init ==
  /\ pc = "boot"
  /\ IF ~rtcState.magic
       THEN /\ rtcState' = ResetRecord(rtcState)
            /\ clock' = clock
       ELSE /\ rtcState' = IF rtcState.savedTime > 0 THEN RestoredRecord(rtcState)
                                                     ELSE rtcState
            /\ clock' = IF rtcState.savedTime > 0 THEN RestoredTime(rtcState, uptimeUs)
                                                  ELSE clock
  /\ initialized' = TRUE
  /\ pc' = "ready"
  /\ UNCHANGED << uptimeUs, h, minuteIdleVars >>

\* NetworkManager_SyncNtp sets the clock
Minute_SyncNtp ==
  /\ pc = "ready"
  /\ \E t \in MinuteNtpTimes :
       /\ t >= clock.sec
       /\ clock' = Tv(t, 0)
  /\ UNCHANGED << rtcState, uptimeUs, pc, initialized, h, minuteIdleVars >>

\* The controller works or waits for a while
Minute_TimePasses ==
  /\ pc = "ready"
  /\ MinuteElapsedSec(clock) < MinuteSpanSec
  /\ clock' = TvAddUs(clock, MinuteStepUs)
  /\ uptimeUs' = uptimeUs + MinuteStepUs
  /\ UNCHANGED << rtcState, pc, initialized, h, minuteIdleVars >>

\* DisplayManager_UpdateDisplay(networkState, forceUpdate),
\* DisplayManager_FullUpdate(networkState) and
\* DisplayManager_UpdateTimeOnly(networkState, forceUpdate)
Minute_Update ==
  /\ pc = "ready"
  /\ \E forceUpdate \in BOOLEAN, whole \in BOOLEAN :
       LET u == DisplayUpdate(rtcState, clock, uptimeUs, forceUpdate, h.image, whole)
       IN  /\ rtcState' = u.st
           /\ clock' = u.clock
           /\ h' = [h EXCEPT
                      !.image = u.image,
                      !.call = [name |-> IF whole THEN "performUpdate"
                                                  ELSE "DisplayManager_UpdateTimeOnly",
                                forceUpdate |-> forceUpdate,
                                ret |-> u.ret,
                                before |-> [st |-> rtcState, clock |-> clock,
                                            image |-> h.image],
                                after |-> [st |-> u.st, clock |-> u.clock,
                                           image |-> u.image]]]
  /\ UNCHANGED << uptimeUs, pc, initialized, minuteIdleVars >>

\* DeepSleepManager_EnterDeepSleep saves the clock and the sleep duration;
\* the chip sleeps and wakes, ImageBW starts over
Minute_DeepSleepWake ==
  /\ pc = "ready"
  /\ h.wakes < MaxMinuteWakes
  /\ MinuteElapsedSec(clock) < MinuteSpanSec
  /\ \E d \in MinuteSleepUs :
       /\ rtcState' = [rtcState EXCEPT !.savedTime = clock.sec,
                                       !.savedTimeUs = clock.usec,
                                       !.sleepDurationUs = d]
       /\ clock' = TvAddUs(clock, d)
  /\ uptimeUs' = 0
  /\ initialized' = FALSE
  /\ pc' = "boot"
  /\ h' = [wakes |-> h.wakes + 1, image |-> BlankImage, call |-> NoUpdate]
  /\ UNCHANGED minuteIdleVars

\* The battery is changed, or the RTC memory loses its content in the sleep
Minute_PowerLost ==
  /\ pc = "ready"
  /\ h.wakes < MaxMinuteWakes
  /\ \E memoryOnly \in BOOLEAN :
       /\ rtcState' = IF memoryOnly THEN [rtcState EXCEPT !.magic = FALSE]
                                    ELSE RTCStateDefault
       /\ clock' = IF memoryOnly THEN clock ELSE Tv(0, 0)
  /\ uptimeUs' = 0
  /\ initialized' = FALSE
  /\ pc' = "boot"
  /\ h' = [wakes |-> h.wakes + 1, image |-> BlankImage, call |-> NoUpdate]
  /\ UNCHANGED minuteIdleVars

NextMinute ==
  \/ Minute_Init
  \/ Minute_SyncNtp
  \/ Minute_TimePasses
  \/ Minute_Update
  \/ Minute_DeepSleepWake
  \/ Minute_PowerLost

SpecMinute == InitMinute /\ [][NextMinute]_vars


(***************************************************************************)
(* SpecUnsent: sensor_logger.cpp SensorLogger_GetUnsentReadings on its     *)
(* own. In this specification initialized and sdCardAvailable are the two  *)
(* statics of sensor_logger.cpp. A log file is the sequence of its lines   *)
(* (empty when the file does not exist); a line is one written by          *)
(* formatSensorLine ("reading": the timestamp is followed by a comma), an  *)
(* empty line ("blank"), or a line cut off before its timestamp ("cut").   *)
(* The payload is the sequence of lines put between "[" and "]".           *)
(***************************************************************************)
MaxLogLines == 2
MaxReadingsAsked == 2

LogStamps == {HourStartSec, HourStartSec + 60, HourStartSec + 120}
LogLines ==
  [kind : {"reading"}, ts : LogStamps] \cup [kind : {"blank", "cut"}, ts : {0}]
LogFiles == UNION { [1..n -> LogLines] : n \in 0..MaxLogLines }
LastUploadedTimes == {0, HourStartSec, HourStartSec + 60}
\* What the caller's variable holds before the call
CallerTimestamps == {0, HourStartSec + 60}

unsentIdleVars ==
  << rtcState, clock, trueTime, uptimeUs, initialized, sdCardAvailable, spiffsMounted,
     rtcTimeBeforeNtpSync, ntpSyncDurationMs, driftRateFile, lastUploadedFile, mediaVars,
     timerWakeUs, taskVars >>

\* new String[maxReadings], new time_t[maxReadings], bufferCount, bufferStart
NewBuffer(maxReadings) ==
  [ entries |-> [i \in 0..(maxReadings - 1) |-> [kind |-> "blank", ts |-> 0]],
    timestamps |-> [i \in 0..(maxReadings - 1) |-> 0],
    bufferCount |-> 0,
    bufferStart |-> 0 ]

\* The circular buffer after one line newer than lastUploadedTime
KeepEntry(buf, line, ts, maxReadings) ==
  IF buf.bufferCount < maxReadings
    THEN LET idx == (buf.bufferStart + buf.bufferCount) % maxReadings
         IN  [buf EXCEPT !.entries[idx] = line,
                         !.timestamps[idx] = ts,
                         !.bufferCount = @ + 1]
    ELSE [buf EXCEPT !.entries[buf.bufferStart] = line,
                     !.timestamps[buf.bufferStart] = ts,
                     !.bufferStart = (@ + 1) % maxReadings]

\* The lambda processFile: the buffer after the lines of one file
RECURSIVE processFile(_, _, _, _)
processFile(buf, lines, lastUploadedTime, maxReadings) ==
  IF lines = << >>
    THEN buf
    ELSE LET line == Head(lines)
             hasTimestamp == line.kind = "reading"   \* tsIndex > 0 and end > start
             next == IF hasTimestamp /\ line.ts > lastUploadedTime
                       THEN KeepEntry(buf, line, line.ts, maxReadings)
                       ELSE buf
         IN  processFile(next, Tail(lines), lastUploadedTime, maxReadings)

\* The loop that builds the payload: latestTimestamp after entries i..
RECURSIVE LatestTimestampFrom(_, _, _, _)
LatestTimestampFrom(buf, i, latest, maxReadings) ==
  IF i >= buf.bufferCount
    THEN latest
    ELSE LET idx == (buf.bufferStart + i) % maxReadings
         IN  LatestTimestampFrom(buf, i + 1,
                                 IF buf.timestamps[idx] > latest THEN buf.timestamps[idx]
                                                                ELSE latest,
                                 maxReadings)

\* SensorLogger_GetUnsentReadings(lastUploadedTime, payload, latestTimestamp,
\* maxReadings): the return value, what was added to payload, and
\* latestTimestamp after the call
SensorLogger_GetUnsentReadings(init, sd, yesterday, today, lastUploadedTime, latestTimestamp, maxReadings) ==
  IF ~init \/ ~sd
    THEN [ret |-> 0, payload |-> << >>, latestTimestamp |-> latestTimestamp]
    ELSE LET buf == processFile(processFile(NewBuffer(maxReadings), yesterday,
                                            lastUploadedTime, maxReadings),
                                today, lastUploadedTime, maxReadings)
         IN  [ret |-> buf.bufferCount,
              payload |-> [i \in 1..buf.bufferCount |->
                             buf.entries[(buf.bufferStart + i - 1) % maxReadings]],
              latestTimestamp |-> LatestTimestampFrom(buf, 0, lastUploadedTime,
                                                      maxReadings)]

NotCalled == [ret |-> 0, payload |-> << >>, latestTimestamp |-> 0]

InitUnsent ==
  /\ rtcState = RTCStateDefault
  /\ clock = Tv(HourStartSec + 120, 0)
  /\ trueTime = clock
  /\ uptimeUs = 0
  /\ pc = "call"
  /\ \E init \in BOOLEAN, sd \in BOOLEAN :
       /\ sd => init      \* checkSDCardAvailable runs in SensorLogger_Init only
       /\ initialized = init
       /\ sdCardAvailable = sd
  /\ spiffsMounted = FALSE
  /\ rtcTimeBeforeNtpSync = Tv(0, 0)
  /\ ntpSyncDurationMs = 0
  /\ driftRateFile = [sd |-> 0, spiffs |-> 0]
  /\ lastUploadedFile = [sd |-> 0, spiffs |-> 0]
  /\ frameBufferFile = [sd |-> NoFile, spiffs |-> NoFile]
  /\ spiffsBegun = FALSE
  /\ epdAsleep = FALSE
  /\ timerWakeUs = 0
  /\ wifiPc = "none"
  /\ sensorPc = "none"
  /\ wifiTaskHandle = FALSE
  /\ sensorTaskHandle = FALSE
  /\ eventBits = {}
  /\ results = ParallelTaskResultsDefault
  /\ networkState = NetworkStateDefault
  /\ wifiParams = [needWifiSync |-> FALSE, measureDriftOnly |-> FALSE]
  /\ wl = WifiLocalsDefault
  /\ allDone = FALSE
  /\ \E yesterday \in LogFiles, today \in LogFiles, last \in LastUploadedTimes,
        latest \in CallerTimestamps, maxReadings \in 1..MaxReadingsAsked :
       h = [ yesterday |-> yesterday,
             today |-> today,
             lastUploadedTime |-> last,
             latestTimestamp |-> latest,    \* the caller's variable
             maxReadings |-> maxReadings,
             out |-> NotCalled ]

\* The caller asks for the unsent readings
Unsent_Call ==
  /\ pc = "call"
  /\ LET out == SensorLogger_GetUnsentReadings(initialized, sdCardAvailable, h.yesterday,
                                               h.today, h.lastUploadedTime,
                                               h.latestTimestamp, h.maxReadings)
     IN  h' = [h EXCEPT !.out = out, !.latestTimestamp = out.latestTimestamp]
  /\ pc' = "returned"
  /\ UNCHANGED unsentIdleVars

NextUnsent == Unsent_Call

SpecUnsent == InitUnsent /\ [][NextUnsent]_vars


(***************************************************************************)
(* Properties                                                              *)
(***************************************************************************)
AfterWait == pc \in {"joined", "minute", "shown"}

\* C1: on a warm wake (valid marker, savedTime > 0) the clock set by the
\* restore is savedTime * 10^6 + savedTimeUs + sleepDurationUs +
\* bootOverheadUs + driftCompensationUs microseconds, with
\* driftCompensationUs = sleepDurationUs / (60 * 10^6) * rate (rate in
\* microseconds per minute); no term is cut to whole seconds.
C1_RestoreSum ==
  /\ (initialized /\ h.markerValidAtWake /\ rtcState.savedTime > 0) => h.restored
  /\ h.restored =>
       LET in == h.restoreIn
           driftCompensationUs == MulDiv60M(in.sleepDurationUs, in.rate)
       IN  /\ in.rate >= 0
           /\ h.restoredClock.usec \in 0..(US - 1)
           /\ (h.restoredClock.sec - in.savedTime) * US + h.restoredClock.usec
                = in.savedTimeUs + in.sleepDurationUs + in.bootOverheadUs
                    + driftCompensationUs

\* A warm wake whose saved time, sleep duration, boot overhead and
\* compensation all have a fraction of a second.
C1_Witness ==
  /\ h.restored
  /\ h.restoreIn.savedTime > kMinValidTime
  /\ h.restoreIn.savedTimeUs % US # 0
  /\ h.restoreIn.sleepDurationUs % US # 0
  /\ h.restoreIn.bootOverheadUs % US # 0
  /\ MulDiv60M(h.restoreIn.sleepDurationUs, h.restoreIn.rate) % US # 0

\* C2: after every successful synchronization (NetworkManager_SyncNtp
\* returned true and DeepSleepManager_MarkNtpSynced has run)
\* cumulativeCompensationMs is 0, whatever the clock and the record were
\* before the sync.
C2_ZeroAfterSync ==
  (h.syncOk /\ h.markDone /\ pc # "asleep") => rtcState.cumulativeCompensationMs = 0

\* A sync succeeded, MarkNtpSynced returned, no fault happened, and the
\* counter still holds the compensation of the restore.
C2_StaleAfterSync ==
  /\ h.syncOk /\ h.markDone /\ pc # "asleep" /\ h.faults = 0
  /\ ~rtcState.lastRtcDriftValid
  /\ rtcState.cumulativeCompensationMs > 0

\* C3: after any number of consecutive warm wakes without a successful sync,
\* cumulativeCompensationMs is the sum over those wakes of the compensation
\* the wake applied to the system clock, also for wakes in which a sync or
\* the WiFi connection was tried and failed.
C3_CumulativeIsAppliedSum ==
  (AfterWait /\ ~h.syncOk /\ h.faults = 0) =>
     rtcState.cumulativeCompensationMs = h.sumAppliedMs + CDiv(h.wakeCompUs, 1000)

\* A warm wake whose sync failed: the clock was set again from the record
\* without the compensation, which the counter still holds.
C3_CountedButNotInClock ==
  /\ AfterWait /\ ~h.syncOk /\ h.faults = 0
  /\ h.restored /\ h.wakeCompUs = 0 /\ h.sumAppliedMs = 0
  /\ rtcState.cumulativeCompensationMs > 0

\* C4: in every state after DeepSleepManager_Init the stored
\* driftRateMsPerMin lies within [20, 300] ms/min.
C4_RateInBand ==
  initialized =>
    (kMinDriftRate <= rtcState.driftRateMsPerMin
       /\ rtcState.driftRateMsPerMin <= kMaxDriftRate)

\* After a reset of the record the rate is one no calibration produced.
C4_RateOutOfBand ==
  /\ initialized /\ h.resetRan
  /\ rtcState.driftRateMsPerMin > kMaxDriftRate

\* C5: when DeepSleepManager_Init finds the marker different from the
\* sentinel, every field of the record holds its default after the reset
\* branch (bootCount: 1), and none keeps the value it had before.
C5_ResetIsComplete ==
  h.resetRan => h.afterReset = [RTCStateDefault EXCEPT !.bootCount = 1]

\* The reset branch ran and four fields kept what they held before.
C5_FieldsSurviveReset ==
  /\ h.resetRan
  /\ h.afterReset.lastUploadedTime = 12345
  /\ h.afterReset.cumulativeCompensationMs = 777
  /\ h.afterReset.driftRateMsPerMin = 912345
  /\ h.afterReset.driftRateCalibrated

\* C6: a wake with a valid marker raises bootCount by exactly 1, however
\* often DeepSleepManager_Init is called in it; a wake with an invalid marker
\* sets it to 1; bootCount >= 1 after every Init.
C6_BootCountOncePerWake ==
  initialized =>
    /\ rtcState.bootCount >= 1
    /\ rtcState.bootCount = IF h.markerValidAtWake THEN h.bootCountAtWake + 1 ELSE 1

\* The third wake, after a second call of DeepSleepManager_Init.
C6_Witness ==
  /\ pc = "init2" /\ initialized
  /\ h.markerValidAtWake /\ h.bootCountAtWake = 2 /\ rtcState.bootCount = 3

\* C7: the device powers down with savedTime, savedTimeUs and
\* sleepDurationUs written and the timer armed for that duration, which is
\* between 1 and 60 seconds under every combination of failures; without a
\* wall clock it is 60 seconds.
C7_PowerDownCommitted ==
  (pc = "asleep" /\ rtcState.magic) =>
    /\ rtcState.savedTime = clock.sec
    /\ rtcState.savedTimeUs = clock.usec
    /\ rtcState.sleepDurationUs = timerWakeUs
    /\ US <= timerWakeUs /\ timerWakeUs <= 60 * US
    /\ (~getLocalTime(clock) => timerWakeUs = 60 * US)

\* Power-down at the floor of one second, after a worker was deleted at the
\* join timeout.
C7_Witness ==
  /\ pc = "asleep" /\ rtcState.magic
  /\ h.killed # {}
  /\ getLocalTime(clock)
  /\ timerWakeUs = US

\* C8: no partially updated record is visible to the next boot: when the
\* device powers down, the bookkeeping of a sync is complete or absent,
\* also when the network worker was deleted at the join timeout.
C8_AllOrNothing ==
  (pc = "asleep" /\ rtcState.magic) => (h.markSteps = 0 \/ h.markDone)

\* Power-down with lastNtpSyncBootCount of this wake and lastNtpSyncTime of
\* an earlier one: the worker was deleted inside MarkNtpSynced.
C8_PartialRecord ==
  /\ pc = "asleep" /\ rtcState.magic
  /\ WIFI_TASK_DONE_BIT \in h.killed
  /\ rtcState.lastNtpSyncBootCount = rtcState.bootCount
  /\ rtcState.lastNtpSyncTime = 0

\* C9: the record is mutated only by the controller and only after both
\* workers have finished: while the controller waits for the workers the
\* record is as it was when they were started.
C9_RecordUntouchedByWorkers ==
  pc = "wait" => rtcState = h.atStart

\* The network worker is inside MarkNtpSynced, the sensor worker still
\* runs, and the record differs from the one the workers were started with.
C9_WorkerWroteRecord ==
  /\ pc = "wait" /\ wifiPc = "mark2" /\ sensorPc = "read"
  /\ rtcState # h.atStart

\* C10: ParallelTasks_WaitForCompletion returns only when each worker has
\* signalled completion, was deleted, or was never created; it returns true
\* exactly if both done bits were set; the bit of a worker that could not be
\* created is set from the start, so the wait never waits for it.
C10_WaitForCompletion ==
  /\ AfterWait =>
       /\ (WIFI_TASK_DONE_BIT \notin h.created
             \/ WIFI_TASK_DONE_BIT \in h.killed
             \/ wifiPc \in {"clear", "gone"})
       /\ (SENSOR_TASK_DONE_BIT \notin h.created
             \/ SENSOR_TASK_DONE_BIT \in h.killed
             \/ sensorPc \in {"clear", "gone"})
       /\ (allDone <=> h.bitsAtReturn = ALL_TASKS_DONE)
       /\ (allDone => h.killed = {})
  /\ pc = "wait" => (ALL_TASKS_DONE \ h.created) \subseteq eventBits

\* The wait returned false after it deleted the network worker; the sensor
\* worker had signalled.
C10_Witness ==
  /\ pc = "joined" /\ ~allDone
  /\ h.killed = {WIFI_TASK_DONE_BIT}
  /\ h.bitsAtReturn = {SENSOR_TASK_DONE_BIT}
  /\ h.created = ALL_TASKS_DONE


\* The fields of ParallelTaskResults each worker writes
WifiResultFields ==
  {"wifiConnected", "ntpSynced", "driftMeasured", "ntpDriftMs", "cumulativeCompMs",
   "wifiConnectTime", "ntpSyncTime"}
SensorResultFields == {"sensorInitialized", "sensorReady"}

\* The worker had not signalled when the wait returned and was then deleted.
StoppedAtTimeout(bit) == bit \in h.killed /\ bit \notin h.bitsAtReturn

\* C11: after the wait, the results of a worker that had not signalled by
\* the timeout and was deleted are that worker's failure defaults, the
\* initializers of ParallelTaskResults: nothing it wrote before it was
\* stopped is left.
C11_StoppedWorkerResultsDiscarded ==
  AfterWait =>
    /\ StoppedAtTimeout(WIFI_TASK_DONE_BIT) =>
         \A f \in WifiResultFields : results[f] = ParallelTaskResultsDefault[f]
    /\ StoppedAtTimeout(SENSOR_TASK_DONE_BIT) =>
         \A f \in SensorResultFields : results[f] = ParallelTaskResultsDefault[f]

\* C11: the controller reads wifiConnected = true (or sensorInitialized =
\* true) from a worker it deleted at the timeout.
C11_PartialResultsKept ==
  /\ AfterWait
  /\ \/ StoppedAtTimeout(WIFI_TASK_DONE_BIT) /\ results.wifiConnected
     \/ StoppedAtTimeout(SENSOR_TASK_DONE_BIT) /\ results.sensorInitialized


\* NetworkManager_SyncNtp is in its server loop or between the loop and its
\* return.
InSyncNtp == wifiPc \in {"try", "setTime", "syncFail"}

\* C12: NetworkManager_SyncNtp queries the servers in list order, each at
\* most once (the k-th query goes to the k-th server); every failed query is
\* followed by the next server; the query that is answered is the last one;
\* there are at most NTP_SERVER_COUNT = 3 queries, after which the function
\* leaves the loop; it returns true when a server answered and false when
\* all three failed.
C12_ServersInOrder ==
  /\ Len(h.queried) <= NTP_SERVER_COUNT
  /\ \A k \in 1..Len(h.queried) : h.queried[k] = k - 1
  /\ \A k \in 1..Len(h.queried) : h.queried[k] \in h.answered => k = Len(h.queried)
  /\ wifiPc = "try" => h.answered = {} /\ Len(h.queried) < NTP_SERVER_COUNT
  /\ wifiPc = "setTime" => h.answered # {}
  /\ wifiPc = "syncFail" => h.answered = {} /\ Len(h.queried) = NTP_SERVER_COUNT
  /\ h.syncOk => h.answered # {} /\ ~h.syncFailed
  /\ h.syncFailed => h.answered = {} /\ Len(h.queried) = NTP_SERVER_COUNT /\ ~h.syncOk

\* C12: the first two servers failed, the third answered and SyncNtp returned true.
C12_Witness ==
  /\ h.syncOk
  /\ h.queried = << 0, 1, 2 >>
  /\ h.answered = {2}


\* C13: while the servers fail and when NetworkManager_SyncNtp has returned
\* false after the last one, the persistent record is field by field the
\* record of the moment the function was entered, and the system clock is
\* the clock of that moment plus the time that has passed: it was not set.
C13_FailedSyncChangesNothing ==
  ((InSyncNtp /\ h.answered = {}) \/ (h.syncFailed /\ wifiPc = "setupRtc")) =>
    /\ rtcState = h.syncStart.rtcState
    /\ clock = TvAddUs(h.syncStart.clock, uptimeUs - h.syncStart.uptimeUs)

\* C13: NetworkManager_SyncNtp has just returned false on a warm wake with
\* a synchronised record (non-default sync fields and compensation).
C13_Witness ==
  /\ h.syncFailed
  /\ wifiPc = "setupRtc"
  /\ h.queried = << 0, 1, 2 >>
  /\ rtcState.lastNtpSyncBootCount > 0
  /\ rtcState.lastNtpSyncTime > 0
  /\ rtcState.cumulativeCompensationMs > 0
  /\ uptimeUs > h.syncStart.uptimeUs


\* C14: after a query with the client clock d behind (d > 0) or ahead
\* (d < 0) of the server clock and a one-way delay w in both directions,
\* offsetUs = ((t2 - t1) + (t3 - t4)) / 2 is exactly d, rttUs =
\* (t4 - t1) - (t3 - t2) is exactly 2 * w, and correctedUnixUsAtReceive is
\* t4 + offsetUs, the server's time at the moment of reception, which
\* settimeofday then puts into the client clock.
C14_OffsetIsInjectedDifference ==
  h.queries > 0 =>
    /\ wl.offsetUs = h.d
    /\ wl.rttUs = TvNorm(0, 2 * h.w)
    /\ wl.correctedUnixUsAtReceive = UsAdd(h.t4, wl.offsetUs)
    /\ wl.correctedUnixUsAtReceive = trueTime
    /\ h.set => clock = trueTime

\* C14: a query with the client clock ahead of the server (negative
\* difference), a delay and a server processing time.
C14_Witness ==
  /\ h.queries > 0
  /\ UsIsNeg(h.d)
  /\ h.d.usec # 0
  /\ h.w = 20000
  /\ h.p = 37


\* The network worker was started in drift-measurement-only mode.
MeasureOnlyMode ==
  /\ WIFI_TASK_DONE_BIT \in h.created
  /\ wifiParams.measureDriftOnly
  /\ ~wifiParams.needWifiSync

\* The controller is inside ParallelTasks_WaitForCompletion or has just left it.
UpToJoin == pc \in {"wait", "chkWifi", "delWifi", "chkSensor", "delSensor", "joined", "hung"}

\* C15: from the start of a network worker in drift-measurement-only mode
\* up to the join the system clock is the clock at the start plus the time
\* that has passed (nobody set it), and lastNtpSyncBootCount,
\* lastNtpSyncTime, driftRateMsPerMin and cumulativeCompensationMs are what
\* they were at the start, whether WiFi connected and whether a server
\* answered.
C15_MeasureOnlyLeavesClockAndRecord ==
  (MeasureOnlyMode /\ UpToJoin) =>
    /\ clock = TvAddUs(h.startClock.clock, uptimeUs - h.startClock.uptimeUs)
    /\ rtcState.lastNtpSyncBootCount = h.atStart.lastNtpSyncBootCount
    /\ rtcState.lastNtpSyncTime = h.atStart.lastNtpSyncTime
    /\ rtcState.driftRateMsPerMin = h.atStart.driftRateMsPerMin
    /\ rtcState.cumulativeCompensationMs = h.atStart.cumulativeCompensationMs

\* C15: in drift-measurement-only mode the WiFi connection failed and the
\* worker has set the system clock from the record.
C15_ClockSetInMeasureOnlyMode ==
  /\ MeasureOnlyMode
  /\ UpToJoin
  /\ ~results.wifiConnected
  /\ wifiPc \in {"signal", "clear", "gone"}
  /\ clock # TvAddUs(h.startClock.clock, uptimeUs - h.startClock.uptimeUs)


\* The record restoreTimeFromRTC read in this wake
RecordAtRestore ==
  [RTCStateDefault EXCEPT !.savedTime = h.restoreIn.savedTime,
                          !.savedTimeUs = h.restoreIn.savedTimeUs,
                          !.sleepDurationUs = h.restoreIn.sleepDurationUs,
                          !.driftRateMsPerMin = h.restoreIn.rate]

\* C16: for the record and the boot overhead restoreTimeFromRTC had in this
\* wake, NetworkManager_SetupTimeFromRTC hands the same time to
\* settimeofday as restoreTimeFromRTC did.
C16_SameClockAsRestore ==
  h.restored =>
    /\ h.restoredClock = RestoredTime(RecordAtRestore, h.restoreIn.bootOverheadUs)
    /\ NetworkManager_SetupTimeFromRTC(RecordAtRestore, clock, h.restoreIn.bootOverheadUs)
         = h.restoredClock

\* C16: a restore after a sleep for which the compensation is not zero: for
\* the same record and overhead the two functions set different clocks.
C16_ClocksDiffer ==
  /\ h.restored
  /\ h.restoreIn.sleepDurationUs > 0
  /\ h.restoreIn.rate > 0
  /\ NetworkManager_SetupTimeFromRTC(RecordAtRestore, clock, h.restoreIn.bootOverheadUs)
       # RestoredTime(RecordAtRestore, h.restoreIn.bootOverheadUs)


\* The first wake after power-on, without a fault: the record holds its
\* reset values and no medium holds a drift-rate file when the workers start.
FirstBootScenario ==
  /\ h.wakes = 1
  /\ h.faults = 0
  /\ h.atStart.lastNtpSyncBootCount = 0
  /\ h.atStart.lastNtpSyncTime = 0
  /\ h.atStart.driftRateMsPerMin = kDefaultDriftRateMsPerMin

\* C17: in the first-boot scenario, once NetworkManager_SyncNtp has returned
\* true and DeepSleepManager_MarkNtpSynced has returned, driftRateCalibrated
\* was false when the workers were started and is true now.
C17_CalibratedByFirstSync ==
  (FirstBootScenario /\ h.syncOk /\ h.markDone) =>
    /\ ~h.atStart.driftRateCalibrated
    /\ rtcState.driftRateCalibrated

\* C17: the first sync has succeeded and MarkNtpSynced has returned; the
\* rate is still the default and driftRateCalibrated is still false.
C17_StillUncalibrated ==
  /\ FirstBootScenario
  /\ h.syncOk
  /\ h.markDone
  /\ rtcState.lastNtpSyncBootCount = 1
  /\ ~rtcState.driftRateCalibrated
  /\ rtcState.driftRateMsPerMin = kDefaultDriftRateMsPerMin


Abs(x) == IF x < 0 THEN -x ELSE x

\* The drift rate was updated in this wake, the sync before this one being
\* the sync of the first boot, with no fault since power-on.
FirstRecalibration ==
  /\ h.rateUpdate.done
  /\ h.faults = 0
  /\ h.atStart.lastNtpSyncBootCount = 1
  /\ h.atStart.bootCount > 1

\* C18: at the first recalibration after the first-boot sync the stored
\* rate moves by at most 0.6 of the distance between the old rate and the
\* clamped sample: |newRate - oldRate| <= 0.6 * |clampedRate - oldRate|.
C18_RateMovesByEmaWeight ==
  FirstRecalibration =>
    /\ rtcState.driftRateMsPerMin = h.rateUpdate.newRate
    /\ 10 * Abs(h.rateUpdate.newRate - h.rateUpdate.oldRate)
         <= 6 * Abs(h.rateUpdate.clampedRate - h.rateUpdate.oldRate)

\* C18: at the first recalibration the record was not yet calibrated and the
\* stored rate jumped from the default to the clamped sample itself.
C18_RateReplacedBySample ==
  /\ FirstRecalibration
  /\ ~h.rateUpdate.calibrated
  /\ h.rateUpdate.oldRate = kDefaultDriftRateMsPerMin
  /\ h.rateUpdate.newRate = h.rateUpdate.clampedRate
  /\ h.rateUpdate.clampedRate # h.rateUpdate.oldRate
  /\ rtcState.driftRateMsPerMin = h.rateUpdate.clampedRate


\* C19: DeepSleepManager_ShouldSyncWiFiNtp returns true exactly when
\* lastNtpSyncBootCount is 0, or the current minute is 0 and
\* lastDisplayedMinute is not 0, or the current minute and
\* lastDisplayedMinute are both 59; in every other combination it returns
\* false.
C19_ShouldSyncExactly ==
  h.decided =>
    (wifiParams.needWifiSync <=>
       \/ rtcState.lastNtpSyncBootCount = 0
       \/ (clock.sec \div 60) % 60 = 0 /\ rtcState.lastDisplayedMinute # 0
       \/ (clock.sec \div 60) % 60 = 59 /\ rtcState.lastDisplayedMinute = 59)

\* C19: a synchronised record, minute 0 already displayed, asked again in
\* minute 0: the answer is false.
C19_Witness ==
  /\ h.decided
  /\ rtcState.lastNtpSyncBootCount > 0
  /\ rtcState.lastDisplayedMinute = 0
  /\ (clock.sec \div 60) % 60 = 0
  /\ ~wifiParams.needWifiSync

\* C20: once the device has synchronised, the sync is found due on at most
\* one wake for each hour boundary, whatever ended the sleeps before: no two
\* wakes that found it due lie nearest to the same hour boundary.
C20_OneSyncPerHourBoundary ==
  \A i, j \in DOMAIN h.dueAt :
     NearestHour(h.dueAt[i]) = NearestHour(h.dueAt[j]) => i = j

\* The sync was found due on two wakes before the same hour boundary, the
\* first of them a wake by the HOME button.
C20_DueTwiceForOneBoundary ==
  /\ Len(h.dueAt) >= 2
  /\ NearestHour(h.dueAt[1]) = NearestHour(h.dueAt[2])
  /\ h.buttons >= 1
  /\ rtcState.lastNtpSyncBootCount > 0

\* max(a, b)
Max(a, b) == IF a >= b THEN a ELSE b

\* The start of the minute after the one the clock is in
NextMinuteBoundary(tv) == Tv((tv.sec \div 60) * 60 + 60, 0)

\* Exact(s, m, p): max(1 s, (60 - s) s - m ms - p) in microseconds
SleepDurationExactUs(tv, st) ==
  Max(1000, (60 - tm_sec(tv)) * 1000 - (tv.usec \div 1000) - st.estimatedProcessingTime) * 1000

FrameBufferCalls == {"SaveFrameBuffer", "LoadFrameBuffer"}
ScalarLoads == {"LoadDriftRate", "LoadLastUploadedTime"}
ScalarSaves == {"SaveDriftRate", "SaveLastUploadedTime"}

\* C22: DeepSleepManager_Init tries SPIFFS only when SD.begin failed, so
\* sdCardAvailable and spiffsMounted are never both true; with neither set,
\* SaveFrameBuffer and LoadFrameBuffer return false, the scalar loads return
\* 0, and no call changes a file, the media flags or rtcState.
C22_PrimaryFirstAndFailClosed ==
  /\ ~(sdCardAvailable /\ spiffsMounted)
  /\ initialized => (h.spiffsTried <=> ~h.sdBegins)
  /\ initialized /\ h.sdBegins => sdCardAvailable
  /\ (h.call.name # "none" /\ ActiveMedium(h.call.before) = "none") =>
       /\ h.call.name \in FrameBufferCalls => h.call.ret = FALSE
       /\ h.call.name \in ScalarLoads => h.call.ret = 0
       /\ h.call.after = h.call.before
       /\ CurrentStore = h.call.before
       /\ rtcState = h.call.record

\* Both mounts failed and a frame buffer save was attempted
C22_Witness ==
  /\ h.call.name = "SaveFrameBuffer"
  /\ h.call.opened /\ h.call.moved = kFrameBufferSize
  /\ h.spiffsTried /\ ~sdCardAvailable /\ ~spiffsMounted

\* C23: DeepSleepManager_LoadFrameBuffer returns true exactly when
\* rtcState.imageSize is not 0, /frame.bin exists on the active medium, its
\* size equals both rtcState.imageSize and the requested size, the file
\* opens and file.read hands back the full requested length; in every other
\* case it returns false.
C23_LoadFailsClosed ==
  h.call.name = "LoadFrameBuffer" =>
    LET store == h.call.before
        medium == ActiveMedium(store)
        fileSize == IF medium = "sd" THEN store.frame.sd
                    ELSE IF medium = "spiffs" /\ store.begun THEN store.frame.spiffs
                    ELSE NoFile
    IN  /\ h.call.ret \in BOOLEAN
        /\ h.call.ret <=>
             /\ h.call.record.imageSize # 0
             /\ medium # "none"
             /\ fileSize # NoFile
             /\ fileSize = h.call.record.imageSize
             /\ fileSize = kFrameBufferSize
             /\ h.call.opened
             /\ h.call.moved = kFrameBufferSize
        /\ rtcState = h.call.record
        /\ h.call.after = h.call.before

\* A load that succeeds, and one refused although the file is there and
\* opens: a short write left it shorter than the recorded imageSize
C23_Witness ==
  /\ h.call.name = "LoadFrameBuffer"
  /\ ~h.call.ret
  /\ h.call.opened /\ h.call.moved = kFrameBufferSize
  /\ h.call.before.sd
  /\ h.call.before.frame.sd = kFrameBufferSize \div 2
  /\ h.call.record.imageSize = kFrameBufferSize

\* A frame buffer save whose file opened and whose write came back short
ShortWrite(call) ==
  /\ call.name = "SaveFrameBuffer"
  /\ ActiveMedium(call.before) # "none"
  /\ call.opened
  /\ ActiveMedium(call.before) = "spiffs" => call.before.begun
  /\ call.moved # kFrameBufferSize

SameResults ==
  /\ h.ret = h.primaryRet
  /\ rtcState.imageSize = h.primary.imageSize

\* C25: with the SD card absent and SPIFFS mounted, every sequence of save
\* and load calls returns what the same sequence returns with the SD card
\* present, and leaves rtcState.imageSize the same, for the same open,
\* write, read and format outcomes.
C25_FallbackTransparent == SameResults

\* C25 as amended: the same, for every call up to and including the first
\* frame buffer save whose write comes back short; and while no write has
\* come back short the two devices hold the same files.
C25_TransparentUntilShortWrite ==
  /\ h.shortBefore = 0 => SameResults
  /\ h.shortWrites = 0 => Contents(CurrentStore) = Contents(h.primary)

\* Three calls without a short write, ending in a load that succeeds on
\* SPIFFS as on the SD card
C25_Witness ==
  /\ h.calls = MaxFallbackCalls
  /\ h.shortWrites = 0
  /\ h.name = "LoadFrameBuffer"
  /\ h.ret = TRUE /\ h.primaryRet = TRUE
  /\ driftRateFile.spiffs = 2000

\* A rate in thousandths of ms/min rounded to two decimals
TwoDecimals(rate) == ((rate + 5) \div 10) * 10

\* DeepSleepManager_Init has just run on a record at its initializers after
\* a power loss
RestoredAfterPowerLoss ==
  pc = Ready /\ h.calls = 0 /\ h.coldBoot /\ h.wakes > 1

\* After a power loss, with the files on the medium that mounts, Init sets
\* the rate to the one the last recalibration wrote there, to two decimals,
\* with the calibrated flag, and lastUploadedTime to the last timestamp
\* written there.
CalibrationRestored ==
  (RestoredAfterPowerLoss /\ ActiveMedium(CurrentStore) # "none") =>
    LET medium == ActiveMedium(CurrentStore)
    IN  /\ FileOn(CurrentStore, driftRateFile) > 0 =>
             /\ rtcState.driftRateMsPerMin = TwoDecimals(h.lastRate[medium])
             /\ rtcState.driftRateCalibrated
        /\ FileOn(CurrentStore, lastUploadedFile) > 0 =>
             rtcState.lastUploadedTime = h.lastUpload[medium]

C27_DisplayAsleepBeforeSave ==
  /\ h.call.name = "SaveFrameBuffer" =>
       /\ h.call.path \in {"performUpdate", "UpdateSensorOnly"}
       /\ h.call.asleep
  /\ \A path \in DOMAIN DisplayPaths :
       \A i \in 1..Len(StepsOf(path)) :
         StepsOf(path)[i] = "SaveFrameBuffer" =>
           i > 1 /\ StepsOf(path)[i - 1] = "EPD_DeepSleep"
  /\ (InPath /\ CurrentStep = "SaveFrameBuffer") => epdAsleep

\* The first update after power-on: the display was awake, performUpdate
\* put it to sleep and then saved the frame buffer
C27_Witness ==
  /\ h.wakes = 1 /\ h.calls = 1
  /\ h.call.name = "SaveFrameBuffer"
  /\ h.call.path = "performUpdate"
  /\ h.call.asleep
  /\ h.call.ret = TRUE

(***************************************************************************)
(* Spec: what the network task reports                                     *)
(***************************************************************************)
\* C28: once the network task of a wake has signalled completion,
\* results.ntpSynced is true only if NetworkManager_SyncNtp set the system
\* clock from a server's answer in that wake, in full-sync mode, in
\* drift-measurement-only mode and when WiFi is not needed.
C28_NtpSyncedMeansClockSet ==
  (WIFI_TASK_DONE_BIT \in eventBits /\ results.ntpSynced) => h.syncOk

\* WiFi was not needed, no server was asked, and the task reports
\* ntpSynced = true
C28_SyncedWithoutSync ==
  /\ WIFI_TASK_DONE_BIT \in eventBits
  /\ ~wifiParams.needWifiSync /\ ~wifiParams.measureDriftOnly
  /\ results.ntpSynced
  /\ ~h.syncOk
  /\ h.queried = << >>

(***************************************************************************)
(* SpecMark: the recalibration in DeepSleepManager_MarkNtpSynced           *)
(***************************************************************************)
\* The three conditions under which MarkNtpSynced recalibrates
RecalibrationRuns ==
  /\ rtcTimeBeforeNtpSync.sec > kMinValidTime
  /\ h.before.lastNtpSyncTime > kMinValidTime
  /\ clock.sec - h.before.lastNtpSyncTime >= 60

\* The sample the claim describes fits the step from old to new rate:
\* trueDrift per minute cut to thousandths when that lies in [20, 300], 20
\* below and 300 above; the new rate is 0.4 * old + 0.6 * sample when the
\* rate was calibrated and the sample itself when it was not.
SampleFits(sample, trueDriftMs, seconds, old, calibrated, new) ==
  /\ sample >= kMinDriftRate /\ sample <= kMaxDriftRate
  /\ trueDriftMs * 60000 < kMinDriftRate * seconds => sample = kMinDriftRate
  /\ trueDriftMs * 60000 > kMaxDriftRate * seconds => sample = kMaxDriftRate
  /\ (trueDriftMs * 60000 >= kMinDriftRate * seconds
        /\ trueDriftMs * 60000 <= kMaxDriftRate * seconds) =>
       /\ sample * seconds <= trueDriftMs * 60000
       /\ trueDriftMs * 60000 < (sample + 1) * seconds
  /\ calibrated =>
       /\ 10 * new <= 4 * old + 6 * sample
       /\ 4 * old + 6 * sample < 10 * new + 10
  /\ ~calibrated => new = sample

C30_RateChangesOnlyWhenDue ==
  h.marked =>
    /\ (rtcState.driftRateMsPerMin # h.before.driftRateMsPerMin
          \/ rtcState.driftRateCalibrated # h.before.driftRateCalibrated)
         => RecalibrationRuns
    /\ ~RecalibrationRuns =>
         /\ rtcState.driftRateMsPerMin = h.before.driftRateMsPerMin
         /\ rtcState.driftRateCalibrated = h.before.driftRateCalibrated
         /\ driftRateFile = [sd |-> 0, spiffs |-> 0]
    /\ rtcState.lastNtpSyncBootCount = h.before.bootCount
    /\ rtcState.lastNtpSyncTime = clock.sec

\* A sync 59 s after the previous one, with a valid clock before it: the
\* residual is measured, the rate and the flag stay, the sync is recorded
C30_Witness ==
  /\ h.marked
  /\ rtcTimeBeforeNtpSync.sec > kMinValidTime
  /\ h.before.lastNtpSyncTime = clock.sec - 59
  /\ ~h.before.driftRateCalibrated /\ ~rtcState.driftRateCalibrated
  /\ rtcState.lastRtcDriftValid
  /\ rtcState.lastNtpSyncTime = clock.sec
  /\ rtcState.lastNtpSyncBootCount = 61

(***************************************************************************)
(* Properties of SpecSync                                                  *)
(***************************************************************************)
\* DeepSleepManager_MarkNtpSynced has recorded a residual in this run
ResidualRecorded == pc = "marked" /\ rtcState.lastRtcDriftValid

\* C31: the residual recorded at a successful sync equals the error the
\* local clock had when the pre-sync time was captured (to the millisecond
\* the record keeps, two milliseconds either way for the truncation of the
\* two clock readings and of the two millis() readings): all time that
\* passes between the capture and the clock read of MarkNtpSynced is
\* subtracted, and a clock with no error gives a residual of 0.
C31_ResidualIsClockError ==
  ResidualRecorded =>
    /\ rtcState.lastRtcDriftMs - UsToMs(h.errorUs) \in -2..2
    /\ UsIsZero(h.errorUs) => rtcState.lastRtcDriftMs = 0

\* C31, the case: a clock without error, a server that answers at once, and
\* a residual of at least the delay(50) that ends NetworkManager_SyncNtp
C31_ResidualOfExactClock ==
  /\ ResidualRecorded
  /\ UsIsZero(h.errorUs)
  /\ rtcState.lastRtcDriftMs >= kNtpOkDelayMs
  /\ rtcState.lastRtcDriftMs = CDiv(h.uncountedUs, 1000)

\* settimeofday of NetworkManager_SyncNtp has run
SyncCommitted == pc \in {"committed", "mark", "marked"}

\* C32: on a successful sync the value written to the system clock is the
\* local clock reading taken at commit time plus the computed offset, which
\* is the corrected time at receive plus the local time elapsed since the
\* response arrived, whatever the sign and size of the offset.
C32_CommitsNowPlusOffset ==
  SyncCommitted =>
    /\ h.committed = UsAdd(h.clockAtCommit, wl.offsetUs)
    /\ h.committed = UsAdd(wl.correctedUnixUsAtReceive, UsSub(h.clockAtCommit, h.t4))

\* C32, the case: a clock ahead of the servers (negative offset), time has
\* passed between the response and the commit, and the committed value is
\* later than the corrected time at receive
C32_Witness ==
  /\ SyncCommitted
  /\ UsIsNeg(wl.offsetUs)
  /\ h.clockAtCommit # h.t4
  /\ h.committed # wl.correctedUnixUsAtReceive
  /\ h.committed = TvAddUs(wl.correctedUnixUsAtReceive, 3000)

(***************************************************************************)
(* Properties of SpecEnter                                                 *)
(***************************************************************************)
\* The time DeepSleepManager_EnterDeepSleep left in the record
SavedTime == Tv(rtcState.savedTime, rtcState.savedTimeUs)

\* C33: savedTime/savedTimeUs are captured immediately before sleep: the
\* clock is read with microsecond precision (0 <= savedTimeUs <= 999999)
\* after the sleep duration was computed, no step during which wall-clock
\* time passes runs between that read and the start of deep sleep, and so
\* savedTime + sleepDurationUs is the instant at which the wake timer fires.
C33_SavedImmediatelyBeforeSleep ==
  /\ pc # "enter" => rtcState.savedTimeUs \in 0..999999
  /\ pc \in {"asleep", "fired"} => /\ h.stepsAfterSave = {}
                                   /\ h.sleepStart = SavedTime
  /\ pc = "fired" => h.timerFired = TvAddUs(SavedTime, rtcState.sleepDurationUs)

\* C33, the case: the timer fires at least the delay(100) later than
\* savedTime + sleepDurationUs, the radio shutdown, the pin hold and the
\* delay having run after the clock was read
C33_TimerFiresLater ==
  /\ pc = "fired"
  /\ rtcState.savedTimeUs \in 0..999999
  /\ {"radio off", "pin hold", "delay"} \subseteq h.stepsAfterSave
  /\ h.timerFired = TvAddUs(SavedTime, rtcState.sleepDurationUs + 1000 * kEnterDelayMs)

(***************************************************************************)
(* Properties of SpecHour: the sleep the restore counts                    *)
(***************************************************************************)
\* C34: on every warm wake, by the timer or by the wake button, the time
\* the restore adds to savedTime for the sleep is time the device spent
\* asleep: the sleep lasted the intended duration, and the restored clock
\* is not ahead of true time by an unslept remainder.
C34_RestoreCountsTimeSlept ==
  pc = "woke" =>
    /\ h.sleptUs >= rtcState.sleepDurationUs
    /\ UsToMs(UsSub(clock, trueTime)) < 1000

\* C34, the case: the HOME button ended a sleep of more than 50 s after one
\* second, and the restored clock is more than 49 s ahead of true time
C34_RestoredAheadAfterButton ==
  /\ pc = "woke"
  /\ h.buttons = 1
  /\ h.sleptUs = 1 * US
  /\ rtcState.sleepDurationUs > 50 * US
  /\ UsToMs(UsSub(clock, trueTime)) > 49000

(***************************************************************************)
(* Properties of Spec: the forced stop of the workers                      *)
(***************************************************************************)
\* C35: on timeout ParallelTasks_WaitForCompletion deletes only a worker
\* that is still alive: at each of its two vTaskDelete calls the handle is
\* not null (a null handle deletes the calling task) and the task it names
\* has not deleted itself, under every interleaving with a worker that
\* finishes at the same moment.
C35_DeletesOnlyLiveTask ==
  [][ /\ (pc = "delWifi" /\ pc' # "delWifi") => (wifiTaskHandle /\ wifiPc # "gone")
      /\ (pc = "delSensor" /\ pc' # "delSensor") =>
           (sensorTaskHandle /\ sensorPc # "gone") ]_vars

\* C35, the case: the wait timed out with the network worker's bit missing,
\* the worker then set its bit, cleared its handle and deleted itself
\* between the controller's test of the handle and its vTaskDelete, and the
\* controller deleted itself with the null handle
C35_ControllerDeletedItself ==
  /\ pc = "hung"
  /\ wifiPc = "gone"
  /\ ~wifiTaskHandle
  /\ WIFI_TASK_DONE_BIT \notin h.bitsAtReturn
  /\ WIFI_TASK_DONE_BIT \in eventBits
  /\ h.killed = {}

\* tryNtpServer has returned true in this run
ResponseAccepted == pc \in {"answered", "committed", "mark", "marked"}

\* C36: a response accepted by an attempt is the reply to that attempt's
\* own request: a datagram that arrives late from a server tried earlier in
\* the same sync is never combined with the current attempt's t1 and t4.
C36_OwnResponseOnly ==
  ResponseAccepted => h.answeredBy = h.askedServer

\* C36, the case: the attempt at the second server accepted the late
\* response of the first, and the clock the sync committed is more than two
\* seconds behind the servers' time
C36_LateResponseCommitted ==
  /\ pc = "committed"
  /\ h.askedServer = 1
  /\ h.answeredBy = 0
  /\ UsToMs(UsSub(h.trueAtCommit, h.committed)) > kNtpWaitMs

(***************************************************************************)
(* Properties of SpecFrame                                                 *)
(***************************************************************************)
\* C37: whenever DeepSleepManager_LoadFrameBuffer succeeds, the bytes it
\* returns are those written by the most recent successful
\* DeepSleepManager_SaveFrameBuffer, across wakes in which saves may fail
\* and the active medium may change from one boot to the next.
C37_LoadsLastSavedImage ==
  (h.loaded.done /\ h.loaded.ok) => (h.lastGood # 0 /\ h.loaded.image = h.lastGood)

\* C37, the case: the first save went to the SD card, the second, on a boot
\* without the card, to SPIFFS, and on the third boot the card is back and
\* the load hands back the first image
C37_LoadsOlderImage ==
  /\ h.loaded.done /\ h.loaded.ok
  /\ h.wakes = 3
  /\ sdCardAvailable
  /\ h.lastGood = 2
  /\ h.loaded.image = 1
  /\ h.image = [sd |-> 1, spiffs |-> 2]

(***************************************************************************)
(* Properties of SpecStorage: the flags after the self-repair              *)
(***************************************************************************)
\* C38: the storage-availability flags match the real mount state: when
\* spiffsMounted is set the SPIFFS library holds the mounted file system,
\* and after the self-repair has unmounted the degraded medium no later
\* storage operation of the same wake is directed at it as if it were
\* still mounted.
C38_FlagsMatchMountState ==
  /\ spiffsMounted => spiffsBegun
  /\ (h.call.name # "none" /\ ActiveMedium(h.call.before) = "spiffs")
       => h.call.before.begun

\* C38, the case: the self-repair ran in this wake, and the drift rate is
\* then saved with spiffsMounted still set and the file system unmounted;
\* nothing is written
C38_SaveAfterRepair ==
  /\ h.formats = 1
  /\ h.call.name = "SaveDriftRate"
  /\ h.call.opened
  /\ ~h.call.before.sd /\ h.call.before.spiffs /\ ~h.call.before.begun
  /\ h.call.after.drift = h.call.before.drift
  /\ spiffsMounted /\ ~spiffsBegun

(***************************************************************************)
(* Properties of SpecMinute                                                *)
(***************************************************************************)
UpdateCalled == h.call.name # "none"

\* What the update saw: the clock it decided on, whether that clock was set,
\* and its minute
UpdateSawClock == getLocalTime(h.call.after.clock)
UpdateSawMinute == tm_min(h.call.after.clock)
UpdateDrewTime ==
  /\ h.call.ret
  /\ h.call.after.image.text = "time"
  /\ h.call.after.image.minute = UpdateSawMinute

\* C39: lastDisplayedMinute is always 255 or a minute 0..59; an update that
\* is not forced returns false exactly when the clock is set and its minute
\* equals lastDisplayedMinute, and then leaves the record, the clock and
\* ImageBW as they were; and an update changes lastDisplayedMinute only to
\* the minute of the clock and only when it drew that minute's time.
C39_DisplayedMinute ==
  /\ rtcState.lastDisplayedMinute = kNoMinute \/ rtcState.lastDisplayedMinute \in 0..59
  /\ (UpdateCalled /\ ~h.call.forceUpdate) =>
       (~h.call.ret <=> (UpdateSawClock
                           /\ UpdateSawMinute = h.call.before.st.lastDisplayedMinute))
  /\ (UpdateCalled /\ ~h.call.ret) => h.call.after = h.call.before
  /\ UpdateCalled =>
       /\ h.call.after.st = [h.call.before.st EXCEPT
                               !.lastDisplayedMinute = h.call.after.st.lastDisplayedMinute]
       /\ (h.call.after.st.lastDisplayedMinute # h.call.before.st.lastDisplayedMinute
             \/ UpdateDrewTime)
            => (UpdateDrewTime /\ h.call.after.st.lastDisplayedMinute = UpdateSawMinute)
       /\ rtcState = h.call.after.st

\* An update that was not forced was skipped with a minute on the record,
\* and an earlier wake's minute is still on the record after the sleep
C39_Witness ==
  /\ UpdateCalled /\ ~h.call.forceUpdate /\ ~h.call.ret
  /\ h.wakes > 1
  /\ rtcState.lastDisplayedMinute \in 0..59

(***************************************************************************)
(* Properties of SpecUnsent                                                *)
(***************************************************************************)
UnsentReturned == pc = "returned"

\* The lines of yesterday's file and then today's whose timestamp is greater
\* than lastUploadedTime
UnsentQualifying ==
  SelectSeq(h.yesterday \o h.today,
            LAMBDA line : line.kind = "reading" /\ line.ts > h.lastUploadedTime)

\* What C40 asks of a call that has returned
UnsentContract ==
  LET lines == h.out.payload
      all == UnsentQualifying
  IN  /\ \A i \in 1..Len(lines) :
           lines[i].kind = "reading" /\ lines[i].ts > h.lastUploadedTime
      /\ h.out.ret = Len(lines)
      /\ Len(lines) <= h.maxReadings
      /\ Len(all) > h.maxReadings =>
           lines = SubSeq(all, Len(all) - h.maxReadings + 1, Len(all))
      /\ IF Len(lines) = 0
           THEN h.latestTimestamp = h.lastUploadedTime
           ELSE /\ \E i \in 1..Len(lines) : lines[i].ts = h.latestTimestamp
                /\ \A i \in 1..Len(lines) : lines[i].ts <= h.latestTimestamp

\* C40: for maxReadings >= 1, the call returns only lines whose timestamp is
\* greater than lastUploadedTime, at most maxReadings of them, the last
\* maxReadings in file order (yesterday's file, then today's) when more
\* qualify, and latestTimestamp is the greatest timestamp among the lines
\* returned, or lastUploadedTime when none is returned.
C40_UnsentReadings == UnsentReturned => UnsentContract

\* The logger has no card, lines newer than lastUploadedTime are in the
\* files, and the call returned 0 with latestTimestamp as the caller had it
C40_LatestTimestampNotSet ==
  /\ UnsentReturned
  /\ initialized /\ ~sdCardAvailable
  /\ Len(UnsentQualifying) > 0
  /\ h.out.ret = 0
  /\ h.latestTimestamp # h.lastUploadedTime

=============================================================================
